---- MODULE Spec2Model ----
(***************************************************************************)
(* Decision resolution of cc-approve: the policy version guard, the three  *)
(* tiers of resolveDecision (fast rules, decision cache, LLM arbiter), the *)
(* two hook handlers and the `permission` command around them.             *)
(*                                                                         *)
(* permission-handler.ts and the command line are translated from their    *)
(* source.  fast-decisions, cache, config, llm-client, logger and project  *)
(* are imported by that source but are not part of it; they are modelled   *)
(* from their documented contracts and are marked so where defined.        *)
(***************************************************************************)
EXTENDS Integers, Sequences, FiniteSets, TLC

VARIABLES
    config,                 \* the config document on disk
    cache,                  \* the cache document on disk: cache key -> entry
    now,                    \* wall clock, in seconds
    ticks,                  \* number of clock advances so far
    installed,              \* CURRENT_SYSTEM_PROMPT_VERSION of the installed build
    promptUpgradeChecked,   \* module flag of the long-lived process
    calls,                  \* number of operations run so far
    prev,                   \* summary of the latest resolution past the fast tier
    last,                   \* record of the observed operation
    procs,                  \* concurrent hook processes (SpecConc only)
    answered,               \* history: <<cache key, decision>> pairs the arbiter
                            \* returned to a concurrent process
    settings,               \* the Claude Code settings files: path -> document
    setup                   \* history of `cc-approve install` / `uninstall`

vars == <<config, cache, now, ticks, installed, promptUpgradeChecked, calls, prev,
          last, procs, answered, settings, setup>>

----------------------------------------------------------------------------
(* Bounds of the model *)

MaxCalls == 2
MaxTicks == 1
MaxBuild == 2

(* ConfigSchema.cache.ttlHours default *)
DefaultTtlHours == 168

----------------------------------------------------------------------------
(* Requests *)

NoCwd == ""
NoRoot == "<none>"
NoSession == ""

Cwds == {NoCwd, "/p1/sub", "/p2"}

ReadInput == [field |-> "file_path", value |-> "/etc/hosts"]
BashInput(c) == [field |-> "command", value |-> c]
NotAnObject == [field |-> "<not-an-object>", value |-> ""]
AbsentInput == [field |-> "<missing>", value |-> ""]

Commands == {"rm -rf /", "git push origin feature/foo", "gh pr create"}

ToolCalls ==
    ({"Read"} \X {ReadInput})
        \cup ({"Bash"} \X {BashInput(c) : c \in Commands})

\* Every tool call under the cwd "/p2"; the always-allowed tool and the
\* unclassified command under every cwd.
Requests ==
    { req \in { [tool_name |-> tc[1], tool_input |-> tc[2], cwd |-> d,
                 session_id |-> "s1"] : tc \in ToolCalls, d \in Cwds } :
        \/ req.cwd = "/p2"
        \/ req.tool_name = "Read"
        \/ req.tool_input.value = "git push origin feature/foo" }

----------------------------------------------------------------------------
(* Fast Rule Matcher (fast-decisions: modelled from its contract) *)

AlwaysAllowTools == {"Read", "Glob", "Grep", "LS", "WebFetch", "WebSearch",
                     "Write", "Edit", "MultiEdit", "NotebookEdit",
                     "TodoWrite", "Task", "AskUserQuestion"}

AlwaysDenyCommands == {"rm -rf /", "rm -rf /usr", "rm -rf ~"}

customPassthroughPatterns == {"gh pr create"}

\* classify(toolName, toolInput); `reasonGiven` is whether the matching rule
\* attaches a reason to its result (the result's reason is optional).
checkFastDecision(toolName, toolInput, reasonGiven) ==
    LET isCommand == toolName = "Bash" /\ toolInput.field = "command"
        decision ==
            IF isCommand /\ toolInput.value \in AlwaysDenyCommands THEN "deny"
            ELSE IF toolName \in AlwaysAllowTools THEN "allow"
            ELSE IF isCommand /\ toolInput.value \in customPassthroughPatterns
                 THEN "passthrough"
            ELSE "unknown"
    IN  [decision |-> decision,
         reason |-> IF reasonGiven /\ decision # "unknown"
                    THEN "matched " \o decision \o " rule" ELSE ""]

----------------------------------------------------------------------------
(* Project Root Resolver (project: modelled from its contract) *)

Parent(dir) ==
    CASE dir = "/p1/sub" -> "/p1"
      [] dir = "/p1" -> "/"
      [] dir = "/p2" -> "/"
      [] OTHER -> "/"

GitAnchors == {"/p1", "/p2"}

RECURSIVE walkUp(_)
walkUp(dir) ==
    IF dir \in GitAnchors THEN dir
    ELSE IF dir = "/" THEN NoRoot
    ELSE walkUp(Parent(dir))

resolveProjectRoot(cwd) == walkUp(cwd)

----------------------------------------------------------------------------
(* Decision Cache (cache: modelled from its contract) *)

NoEntry == [decision |-> "none", reason |-> "", timestamp |-> 0, policy |-> 0]

\* The digest of (toolName, canonical toolInput, projectRoot), kept as the
\* triple it digests.
generateCacheKey(toolName, toolInput, projectRoot) ==
    <<toolName, toolInput, projectRoot>>

TtlSeconds(cfg) == cfg.ttlHours * 3600

\* A cache whose entries never expire.
IsFreshForever(cfg, entry, t) == TRUE

IsFresh(cfg, entry, t) == t - entry.timestamp <= TtlSeconds(cfg)

\* A cache document that cannot be read or does not parse.
CorruptCache ==
    [k \in {<<"<unparseable>", NotAnObject, NoRoot>>} |-> NoEntry]

Parses(c) == c # CorruptCache

\* get: a hit needs the key and a fresh timestamp; a stale entry is evicted.
\* A document that does not parse is read as an empty one.
getCachedDecision(cfg, c, t, toolName, toolInput, projectRoot) ==
    LET key == generateCacheKey(toolName, toolInput, projectRoot)
        miss == [hit |-> FALSE, entry |-> NoEntry, cache |-> c,
                 reads |-> 1, writes |-> 0]
    IN  IF ~cfg.cacheEnabled THEN [miss EXCEPT !.reads = 0]
        ELSE IF ~Parses(c) THEN miss
        ELSE IF key \notin DOMAIN c THEN miss
        ELSE IF IsFresh(cfg, c[key], t)
             THEN [miss EXCEPT !.hit = TRUE, !.entry = c[key]]
        ELSE [miss EXCEPT !.cache = [k \in DOMAIN c \ {key} |-> c[k]],
                          !.writes = 1]

\* set: read the document, put the entry at its key, replace the document.
\* `policy` is not a field of the document: it records the system prompt the
\* arbiter was asked under.
setCachedDecision(cfg, c, t, toolName, toolInput, decision, reason, projectRoot, policy) ==
    LET key == generateCacheKey(toolName, toolInput, projectRoot)
        entry == [decision |-> decision, reason |-> reason,
                  timestamp |-> t, policy |-> policy]
    IN  IF ~cfg.cacheEnabled THEN [cache |-> c, reads |-> 0, writes |-> 0]
        ELSE IF ~Parses(c)
        THEN [cache |-> [k \in {key} |-> entry], reads |-> 1, writes |-> 1]
        ELSE [cache |-> [k \in DOMAIN c \cup {key} |->
                            IF k = key THEN entry ELSE c[k]],
              reads |-> 1, writes |-> 1]

EmptyCache == [k \in {} |-> NoEntry]

\* clearAll() -> count
clearCache(c) ==
    [cache |-> EmptyCache,
     count |-> IF Parses(c) THEN Cardinality(DOMAIN c) ELSE 0,
     reads |-> 1, writes |-> 1]

----------------------------------------------------------------------------
(* LLM Arbiter (llm-client: modelled from its contract) *)

LlmOutcomes == {"allow", "deny", "transport_error", "timeout", "malformed"}

\* One request; a well-formed {decision, reason} is returned as it is, every
\* failure resolves to deny with a reason naming the failure.
queryLLM(outcome) ==
    CASE outcome = "allow" -> [decision |-> "allow", reason |-> "non-protected branch"]
      [] outcome = "deny" -> [decision |-> "deny", reason |-> "dangerous operation"]
      [] outcome = "transport_error" -> [decision |-> "deny", reason |-> "LLM request failed"]
      [] outcome = "timeout" -> [decision |-> "deny", reason |-> "LLM request timed out"]
      [] OTHER -> [decision |-> "deny", reason |-> "LLM response malformed"]

LlmSucceeded(outcome) == outcome \in {"allow", "deny"}

----------------------------------------------------------------------------
(* Policy Version Guard: ensurePromptUpToDate *)

FaultPoints == {"none", "loadConfig", "saveConfig", "clearCache",
                "resolveProjectRoot", "checkFastDecision", "getCachedDecision",
                "queryLLM", "setCachedDecision", "logDecision"}

\* A guard that upgrades whenever autoUpdateSystemPrompt is set, whatever the
\* stored version.
NeedsUpgradeAlways(cfg, cur) == cfg.autoUpdateSystemPrompt

\* config.autoUpdateSystemPrompt &&
\*   config.llm.systemPromptVersion < CURRENT_SYSTEM_PROMPT_VERSION
NeedsUpgrade(cfg, cur) ==
    cfg.autoUpdateSystemPrompt /\ cfg.systemPromptVersion < cur

\* A guard that stores the new prompt and leaves the stored version as it was.
UpgradedConfigPromptOnly(cfg, cur) == [cfg EXCEPT !.systemPrompt = cur]

\* systemPrompt = DEFAULT_SYSTEM_PROMPT; systemPromptVersion = CURRENT_...
\* The default prompt of a build is named by the build's version.
UpgradedConfig(cfg, cur) ==
    [cfg EXCEPT !.systemPrompt = cur, !.systemPromptVersion = cur]

\* The guard's cache invalidation: clearCache() after saveConfig(config).
\* A guard that leaves the cache as it is.
GuardClearSkipped(c) == [cache |-> c, count |-> 0, reads |-> 0, writes |-> 0]

GuardClear(c) == clearCache(c)

\* A guard that forgets it has run.
GuardDoneNever(checked) == FALSE

\* if (promptUpgradeChecked) return;
GuardDone(checked) == checked

\* `fault` names the call that throws when it is reached ("none": no call does).
ensurePromptUpToDate(checked, cfg, c, cur, fault) ==
    LET idle == [checked |-> TRUE, config |-> cfg, cache |-> c, threw |-> FALSE,
                 upgraded |-> FALSE, cleared |-> FALSE,
                 configLoads |-> 0, configSaves |-> 0,
                 cacheReads |-> 0, cacheWrites |-> 0]
        loaded == [idle EXCEPT !.configLoads = 1]
        saved == [loaded EXCEPT !.config = UpgradedConfig(cfg, cur),
                                !.configSaves = 1, !.upgraded = TRUE]
        clr == GuardClear(c)
    IN  IF GuardDone(checked) THEN idle
        ELSE IF fault = "loadConfig" THEN [idle EXCEPT !.threw = TRUE]
        ELSE IF NeedsUpgrade(cfg, cur)
             THEN IF fault = "saveConfig" THEN [loaded EXCEPT !.threw = TRUE]
                  ELSE IF fault = "clearCache" THEN [saved EXCEPT !.threw = TRUE]
                  ELSE [saved EXCEPT !.cache = clr.cache, !.cleared = TRUE,
                                     !.cacheReads = clr.reads,
                                     !.cacheWrites = clr.writes]
        ELSE loaded

----------------------------------------------------------------------------
(* Decision Resolver: resolveDecision *)

\* x || d on strings
OrDefault(x, d) == IF x = "" THEN d ELSE x

\* The three terminal branches of tier 1.
\* Fast tiers that let a deny, an allow, or everything but an allow fall
\* through to the cache tier.
FastTerminalNoDeny(fr) == fr.decision \in {"allow", "passthrough"}

FastTerminalNoAllow(fr) == fr.decision \in {"deny", "passthrough"}

FastTerminalAllowOnly(fr) == fr.decision = "allow"

FastTerminalNoPassthrough(fr) == fr.decision \in {"allow", "deny"}

\* A resolver without the fast tier's returns.
FastTerminalNever(fr) == FALSE

FastTerminal(fr) == fr.decision \in {"allow", "deny", "passthrough"}

FastLogReason(fr) ==
    OrDefault(fr.reason,
              CASE fr.decision = "allow" -> "Fast allow"
                [] fr.decision = "deny" -> "Fast deny"
                [] OTHER -> "Fast passthrough")

FastReturnReason(fr) ==
    OrDefault(fr.reason,
              CASE fr.decision = "allow" -> "Fast allow"
                [] fr.decision = "deny" -> "Blocked by security pattern"
                [] OTHER -> "Fast passthrough")

\* What tier 2 returns for the entry getCachedDecision gave.
\* A cache tier that answers deny on every hit.
CacheTierResultDeny(entry) == [decision |-> "deny", reason |-> entry.reason]

CacheTierResult(entry) == [decision |-> entry.decision, reason |-> entry.reason]

\* What tier 3 hands to setCachedDecision and returns.
\* An LLM tier that returns deny whatever the arbiter answered.
LlmTierResultDenies(llmResult) ==
    [decision |-> "deny", reason |-> llmResult.reason]

\* An LLM tier that returns allow whatever the arbiter answered.
LlmTierResultAllows(llmResult) ==
    [decision |-> "allow", reason |-> llmResult.reason]

LlmTierResult(llmResult) ==
    [decision |-> llmResult.decision, reason |-> llmResult.reason]

\* Whether tier 3 writes its result to the cache: it always does.
\* An LLM tier that never stores its result.
LlmTierCachesNever(outcome) == FALSE

\* An LLM tier that stores every result but an allow.
LlmTierCachesDenials(outcome) == outcome # "allow"

LlmTierCaches(outcome) == TRUE

\* The project root the cache tiers are called with.
\* A resolver that keys the cache without the project root.
CacheScopeGlobal(projectRoot) == NoRoot

CacheScope(projectRoot) == projectRoot

logDecision(toolName, decision, reason, decisionSource, sessionId, projectRoot) ==
    [toolName |-> toolName, decision |-> decision, reason |-> reason,
     decisionSource |-> decisionSource, sessionId |-> sessionId,
     projectRoot |-> projectRoot]

\* An operation's outcome with the fault thrown.
Throw(o) == [o EXCEPT !.threw = TRUE]

\* An operation's outcome with its log record written and its result returned.
Finish(o, req, projectRoot, logged, returned, source) ==
    [o EXCEPT !.logs = Append(@, logDecision(req.tool_name, logged.decision,
                                             logged.reason, source,
                                             req.session_id, projectRoot)),
              !.decision = returned.decision,
              !.reason = returned.reason,
              !.source = source]

\* Tier 3 after queryLLM returned: setCachedDecision, logDecision, return.
\* `put` is what setCachedDecision does to the document tier 2 left.
LlmStore(o, req, env, projectRoot, llmResult, put) ==
    IF ~LlmTierCaches(env.llm)
    THEN IF env.fault = "logDecision" THEN Throw(o)
         ELSE Finish(o, req, projectRoot, llmResult, llmResult, "llm")
    ELSE IF env.fault = "setCachedDecision" THEN Throw(o)
    ELSE IF env.fault = "logDecision"
    THEN Throw([o EXCEPT !.cache = put.cache, !.stores = 1,
                         !.cacheReads = @ + put.reads,
                         !.cacheWrites = @ + put.writes])
    ELSE Finish([o EXCEPT !.cache = put.cache, !.stores = 1,
                          !.cacheReads = @ + put.reads,
                          !.cacheWrites = @ + put.writes],
                req, projectRoot, llmResult, llmResult, "llm")

\* Tier 3: queryLLM, then the store.
LlmTier(o, req, env, projectRoot, llmResult) ==
    IF env.fault = "queryLLM" THEN Throw([o EXCEPT !.llmCalls = 1])
    ELSE LlmStore([o EXCEPT !.llmCalls = 1], req, env, projectRoot, llmResult,
                  setCachedDecision(o.config, o.cache, env.now, req.tool_name,
                                    req.tool_input, llmResult.decision,
                                    llmResult.reason, CacheScope(projectRoot),
                                    o.config.systemPrompt))

\* Tier 2 after getCachedDecision returned `got`: a hit is logged and returned,
\* a miss goes on to tier 3.
CacheTier(o, req, env, projectRoot, got) ==
    IF got.hit
    THEN IF env.fault = "logDecision" THEN Throw(o)
         ELSE Finish(o, req, projectRoot,
                     [decision |-> CacheTierResult(got.entry).decision,
                      reason |-> "Cached: " \o got.entry.reason],
                     CacheTierResult(got.entry), "cache")
    ELSE LlmTier(o, req, env, projectRoot, LlmTierResult(queryLLM(env.llm)))

\* The outcome so far with the lookup's effects.
Looked(o, got) ==
    [o EXCEPT !.cache = got.cache, !.lookups = 1,
              !.cacheReads = @ + got.reads,
              !.cacheWrites = @ + got.writes,
              !.hit = got.entry]

\* Tier 1 after checkFastDecision returned `fr`: the three terminal branches,
\* else the cache lookup.
FastTier(o, req, env, projectRoot, fr, got) ==
    IF FastTerminal(fr)
    THEN IF env.fault = "logDecision" THEN Throw([o EXCEPT !.fast = fr.decision])
         ELSE Finish([o EXCEPT !.fast = fr.decision], req, projectRoot,
                     [decision |-> fr.decision, reason |-> FastLogReason(fr)],
                     [decision |-> fr.decision, reason |-> FastReturnReason(fr)],
                     "fast")
    ELSE IF env.fault = "getCachedDecision" THEN Throw([o EXCEPT !.fast = fr.decision])
    ELSE CacheTier(Looked([o EXCEPT !.fast = fr.decision], got),
                   req, env, projectRoot, got)

\* The body of resolveDecision after the guard returned `g`.
AfterGuard(g, o, req, env, projectRoot) ==
    IF g.threw THEN o
    ELSE IF req.cwd # NoCwd /\ env.fault = "resolveProjectRoot" THEN Throw(o)
    ELSE IF env.fault = "checkFastDecision"
    THEN Throw([o EXCEPT !.rootResolves = IF req.cwd # NoCwd THEN 1 ELSE 0])
    ELSE FastTier([o EXCEPT !.rootResolves = IF req.cwd # NoCwd THEN 1 ELSE 0],
                  req, env, projectRoot,
                  checkFastDecision(req.tool_name, req.tool_input, env.reasonGiven),
                  getCachedDecision(g.config, g.cache, env.now, req.tool_name,
                                    req.tool_input, CacheScope(projectRoot)))

\* The outcome of a call when its guard has run.
Started(g) ==
    [config |-> g.config, cache |-> g.cache, checked |-> g.checked,
     threw |-> g.threw, decision |-> "none", reason |-> "",
     source |-> "none", logs |-> <<>>, llmCalls |-> 0,
     lookups |-> 0, stores |-> 0,
     cacheReads |-> g.cacheReads, cacheWrites |-> g.cacheWrites,
     configLoads |-> g.configLoads, configSaves |-> g.configSaves,
     rootResolves |-> 0, fast |-> "none",
     upgraded |-> g.upgraded, cleared |-> g.cleared,
     guardCache |-> g.cache, hit |-> NoEntry]

\* A resolver that never resolves the project root.
GuardedWithoutRoot(g, req, env) == AfterGuard(g, Started(g), req, env, NoRoot)

Guarded(g, req, env) ==
    AfterGuard(g, Started(g), req, env,
               IF req.cwd # NoCwd THEN resolveProjectRoot(req.cwd) ELSE NoRoot)

\* st: [config, cache, checked]; req: a request;
\* env: [now, installed, llm, reasonGiven, fault].
resolveDecision(st, req, env) ==
    Guarded(ensurePromptUpToDate(st.checked, st.config, st.cache,
                                 env.installed, env.fault),
            req, env)

\* What the guard would have returned had it done nothing.
NoGuard(st) ==
    [checked |-> st.checked, config |-> st.config, cache |-> st.cache,
     threw |-> FALSE, upgraded |-> FALSE, cleared |-> FALSE,
     configLoads |-> 0, configSaves |-> 0, cacheReads |-> 0, cacheWrites |-> 0]

\* The pipeline without the policy guard: the older resolveDecision, which
\* begins with the project root and the fast tier.
resolveDecisionWithoutGuard(st, req, env) == Guarded(NoGuard(st), req, env)

----------------------------------------------------------------------------
(* Hook handler and the `permission` command *)

Missing == "<missing>"
NotAString == "<number>"

\* A schema that accepts every object.
PermissionRequestInputSchemaLax(raw) == TRUE

\* z.object({hook_event_name: literal, tool_name: string, tool_input: record, ..})
PermissionRequestInputSchema(raw) ==
    /\ raw.hook_event_name = "PermissionRequest"
    /\ raw.tool_name \notin {Missing, NotAString}
    /\ raw.tool_input \notin {NotAnObject, AbsentInput}

createPermissionAllowResponse == [behavior |-> "allow", message |-> ""]
createPermissionDenyResponse(message) == [behavior |-> "deny", message |-> message]
NullResponse == [behavior |-> "null", message |-> ""]

\* The outcome of a path that never enters resolveDecision.
NotResolved(st) ==
    [config |-> st.config, cache |-> st.cache, checked |-> st.checked,
     threw |-> FALSE, decision |-> "none", reason |-> "", source |-> "none",
     logs |-> <<>>, llmCalls |-> 0, lookups |-> 0, stores |-> 0,
     cacheReads |-> 0, cacheWrites |-> 0, configLoads |-> 0, configSaves |-> 0,
     rootResolves |-> 0, fast |-> "none", upgraded |-> FALSE, cleared |-> FALSE,
     guardCache |-> st.cache, hit |-> NoEntry]

RequestOf(raw) ==
    [tool_name |-> raw.tool_name, tool_input |-> raw.tool_input,
     cwd |-> raw.cwd, session_id |-> raw.session_id]

\* A handler that drops the reason of a deny.
ResponseForNoReason(result) ==
    IF result.decision = "allow" THEN createPermissionAllowResponse
    ELSE IF result.decision = "deny" THEN createPermissionDenyResponse("")
    ELSE NullResponse

\* allow -> allow response, deny -> deny response with the reason, else null
ResponseFor(result) ==
    IF result.decision = "allow" THEN createPermissionAllowResponse
    ELSE IF result.decision = "deny" THEN createPermissionDenyResponse(result.reason)
    ELSE NullResponse

handlePermissionRequest(st, raw, env) ==
    IF ~PermissionRequestInputSchema(raw)
    THEN [response |-> createPermissionDenyResponse("Invalid permission request input"),
          out |-> NotResolved(st)]
    ELSE LET out == resolveDecision(st, RequestOf(raw), env)
         IN  [response |-> IF out.threw THEN NullResponse ELSE ResponseFor(out),
              out |-> out]

\* The {} the PreToolUse handler puts in the place of an absent or falsy
\* tool_input.
EmptyObject == [field |-> "<empty>", value |-> ""]
EmptyName == ""

\* (input.tool_input as Record<string, unknown>) || {}: a cast checks nothing
\* at run time, so every truthy value is kept as it is.
PreToolUseInput(tool_input) ==
    IF tool_input = AbsentInput THEN EmptyObject ELSE tool_input

\* !toolName: undefined and the empty string.
PreToolUseNameAbsent(tool_name) == tool_name \in {Missing, EmptyName}

PreToolUseOutput(permissionDecision, permissionDecisionReason) ==
    [hookEventName |-> "PreToolUse", permissionDecision |-> permissionDecision,
     permissionDecisionReason |-> permissionDecisionReason]

\* A PreToolUse handler that drops the reason of its result.
PreToolUseOutputForNoReason(result) ==
    IF result.decision \in {"allow", "deny"}
    THEN PreToolUseOutput(result.decision, "")
    ELSE NullResponse

\* allow and deny -> output with the result's reason, else null
PreToolUseOutputFor(result) ==
    IF result.decision \in {"allow", "deny"}
    THEN PreToolUseOutput(result.decision, result.reason)
    ELSE NullResponse

\* The request handlePreToolUse hands to resolveDecision.
PreToolUseRequestOf(raw) ==
    [tool_name |-> raw.tool_name, tool_input |-> PreToolUseInput(raw.tool_input),
     cwd |-> raw.cwd, session_id |-> raw.session_id]

handlePreToolUse(st, raw, env) ==
    IF PreToolUseNameAbsent(raw.tool_name)
    THEN [response |-> PreToolUseOutput("deny",
                           "Invalid PreToolUse input: missing tool_name"),
          out |-> NotResolved(st)]
    ELSE LET out == resolveDecision(st, PreToolUseRequestOf(raw), env)
         IN  [response |-> IF out.threw THEN NullResponse ELSE PreToolUseOutputFor(out),
              out |-> out]

\* The catch block of the command: a deny response and exit status 1.
\* A catch block that fails open.
ErrorResponseFailOpen(errorMessage) == createPermissionAllowResponse

\* A catch block that answers nothing.
ErrorResponseNull(errorMessage) == NullResponse

ErrorResponse(errorMessage) ==
    createPermissionDenyResponse("Hook error: " \o errorMessage)

\* `cc-approve permission`: a fresh process reads standard input, parses it,
\* handles the request and writes at most one response.
permissionCommand(disk, stdin, env) ==
    LET st == [config |-> disk.config, cache |-> disk.cache, checked |-> FALSE]
        h == handlePermissionRequest(st, stdin, env)
    IN  IF ~stdin.parses
        THEN [stdout |-> <<ErrorResponse("Unexpected token")>>, exit |-> 1,
              response |-> NullResponse, out |-> NotResolved(st)]
        ELSE IF h.out.threw
        THEN [stdout |-> <<ErrorResponse(env.fault)>>, exit |-> 1,
              response |-> NullResponse, out |-> h.out]
        ELSE IF h.response = NullResponse
        THEN [stdout |-> <<>>, exit |-> 0, response |-> h.response, out |-> h.out]
        ELSE [stdout |-> <<h.response>>, exit |-> 0,
              response |-> h.response, out |-> h.out]

----------------------------------------------------------------------------
(* Inputs *)

RawOf(req) ==
    [parses |-> TRUE, hook_event_name |-> "PermissionRequest",
     tool_name |-> req.tool_name, tool_input |-> req.tool_input,
     cwd |-> req.cwd, session_id |-> req.session_id]

ValidRaw == {RawOf(req) : req \in Requests}

SampleRaw == RawOf([tool_name |-> "Read", tool_input |-> ReadInput,
                    cwd |-> "/p2", session_id |-> "s1"])

MalformedRaw ==
    { [SampleRaw EXCEPT !.parses = FALSE],
      [SampleRaw EXCEPT !.hook_event_name = "PreToolUse"],
      [SampleRaw EXCEPT !.tool_name = Missing],
      [SampleRaw EXCEPT !.tool_name = NotAString],
      [SampleRaw EXCEPT !.tool_input = NotAnObject] }

RawInputs == ValidRaw \cup MalformedRaw

\* One request per fast classification, and the unclassified command under
\* two project roots.
StepRequests ==
    { req \in Requests :
        \/ req.tool_input.value = "git push origin feature/foo" /\ req.cwd # "/p2"
        \/ req.tool_input.value # "git push origin feature/foo" /\ req.cwd = "/p2" }

StepRaw == {RawOf(req) : req \in StepRequests} \cup MalformedRaw

\* Every environment of one operation: what the arbiter answers, whether the
\* fast rule carries a reason, and which call (if any) throws.
Envs(t, cur) ==
    { [now |-> t, installed |-> cur, llm |-> l, reasonGiven |-> r, fault |-> f] :
        l \in LlmOutcomes, r \in BOOLEAN, f \in FaultPoints }

\* The observed operation is run on every request, under every answer of the
\* arbiter without a fault, a rule without a reason, and every fault against
\* an arbiter that would allow.
ObservedEnvs(t, cur) ==
    { e \in Envs(t, cur) :
        \/ e.fault = "none" /\ e.reasonGiven
        \/ e.fault = "none" /\ e.llm = "allow"
        \/ e.llm = "allow" /\ e.reasonGiven }

\* The operations before it are run for what they leave behind (documents,
\* module flag), on the requests and under the environments below.
StepFaults == {"loadConfig", "clearCache", "logDecision"}

StepEnvs(t, cur) ==
    { e \in Envs(t, cur) :
        \/ e.fault = "none" /\ e.reasonGiven /\ e.llm \in {"allow", "deny"}
        \/ e.fault \in StepFaults /\ e.llm = "allow" /\ e.reasonGiven }

----------------------------------------------------------------------------
(* cc-approve install / uninstall: the Claude Code settings files *)

HomeSettings == "~/.claude/settings.json"
AppDataSettings == "~/AppData/Roaming/Claude/settings.json"
ProjectSettings == "./.claude/settings.json"
LocalSettings == "./.claude/settings.local.json"

SettingsPaths == {HomeSettings, AppDataSettings, ProjectSettings, LocalSettings}

\* settingsLocations of the user scope, in the order install looks for them.
settingsLocations == <<HomeSettings, AppDataSettings>>

\* The scopes install offers.
Scopes == {"user", "project", "local"}

\* A settings file: whether it exists, whether the document has a `hooks`
\* key, the hooks under it as <<event, command>> pairs, and another top-level
\* key of the document.
AbsentFile == [exists |-> FALSE, hooksKey |-> FALSE, hooks |-> {}, theme |-> "none"]

\* JSON.stringify({ hooks: {} }) and JSON.stringify({})
NewUserFile == [exists |-> TRUE, hooksKey |-> TRUE, hooks |-> {}, theme |-> "none"]
NewProjectFile == [exists |-> TRUE, hooksKey |-> FALSE, hooks |-> {}, theme |-> "none"]

\* The hook install writes.
PermissionRequestHook == <<"PermissionRequest", "cc-approve permission">>

\* The settings file install writes for a scope.
installPath(files, scope) ==
    IF scope = "user"
    THEN IF files[settingsLocations[1]].exists THEN settingsLocations[1]
         ELSE IF files[settingsLocations[2]].exists THEN settingsLocations[2]
         ELSE settingsLocations[1]
    ELSE IF scope = "project" THEN ProjectSettings
    ELSE LocalSettings

\* The file install reads: the one found, or the one it has just created.
installFound(files, scope) ==
    IF files[installPath(files, scope)].exists THEN files[installPath(files, scope)]
    ELSE IF scope = "user" THEN NewUserFile
    ELSE NewProjectFile

\* settings.hooks.PermissionRequest = [...] on the document of a file.
withPermissionRequestHook(file) ==
    [file EXCEPT !.hooksKey = TRUE,
                 !.hooks = {h \in @ : h[1] # "PermissionRequest"}
                              \cup {PermissionRequestHook}]

\* The settings files after install has written the hook for a scope.
installHook(files, scope) ==
    [files EXCEPT ![installPath(files, scope)] =
        withPermissionRequestHook(installFound(files, scope))]

\* The settings files after uninstall: it reads ~/.claude/settings.json only
\* and deletes settings.hooks.PermissionRequest when there is one.
uninstallHook(files) ==
    IF ~files[HomeSettings].exists THEN files
    ELSE IF \E h \in files[HomeSettings].hooks : h[1] = "PermissionRequest"
    THEN [files EXCEPT ![HomeSettings].hooks =
                           {h \in @ : h[1] # "PermissionRequest"}]
    ELSE files

\* newConfig of install as saveConfig stores it: the build's default prompt,
\* the cache enabled with the default lifetime. newConfig names neither a
\* prompt version nor autoUpdateSystemPrompt: what a later loadConfig reads
\* for them is left open.
installConfigs(cur) ==
    { [systemPromptVersion |-> v, systemPrompt |-> cur,
       autoUpdateSystemPrompt |-> a, cacheEnabled |-> TRUE,
       ttlHours |-> DefaultTtlHours] : v \in 1..cur, a \in BOOLEAN }

\* The settings files a run of install may find.
InitialFiles ==
    { AbsentFile,
      [exists |-> TRUE, hooksKey |-> FALSE, hooks |-> {}, theme |-> "dark"],
      [exists |-> TRUE, hooksKey |-> TRUE, hooks |-> {<<"PreToolUse", "lint">>},
       theme |-> "dark"],
      [exists |-> TRUE, hooksKey |-> TRUE,
       hooks |-> {<<"PermissionRequest", "ask-me">>, <<"PreToolUse", "lint">>},
       theme |-> "dark"] }

\* What is remembered of the install and uninstall commands run so far.
NoSetup ==
    [phase |-> "start", scope |-> "user", path |-> HomeSettings,
     before |-> [path \in SettingsPaths |-> AbsentFile]]

-----------------------------------------------------------------------------
(* The sequential system: one long-lived process calling resolveDecision,   *)
(* `cc-approve permission` processes run one after another, the clock, and  *)
(* installations of a newer build.                                          *)

Disk == [config |-> config, cache |-> cache]
Process == [config |-> config, cache |-> cache, checked |-> promptUpgradeChecked]

\* The cache key a raw request resolves under.
KeyOf(raw) ==
    generateCacheKey(raw.tool_name, raw.tool_input,
                     IF raw.cwd # NoCwd THEN resolveProjectRoot(raw.cwd) ELSE NoRoot)

NoSummary ==
    [valid |-> FALSE, key |-> KeyOf(SampleRaw), threw |-> FALSE,
     decision |-> "none", reason |-> "", source |-> "none", llmCalls |-> 0,
     entryTime |-> 0]

\* What is kept of the latest resolution that went past the fast tier: its
\* key, its result, and the timestamp of the entry it was served or wrote.
\* A guard that clears the cache ends what was kept.
Summary(old, raw, env, out) ==
    IF out.fast = "unknown"
    THEN [valid |-> TRUE, key |-> KeyOf(raw), threw |-> out.threw,
          decision |-> out.decision, reason |-> out.reason,
          source |-> out.source, llmCalls |-> out.llmCalls,
          entryTime |-> IF out.source = "cache" THEN out.hit.timestamp
                        ELSE env.now]
    ELSE IF out.cleared THEN NoSummary
    ELSE old

\* The record of the observed operation.
Record(op, raw, env, before, r) ==
    [op |-> op, raw |-> raw, at |-> env.now,
     llm |-> IF r.out.llmCalls > 0 THEN env.llm ELSE "none",
     fault |-> IF r.out.threw THEN env.fault ELSE "none",
     installed |-> env.installed,
     resolved |-> r.out.fast # "none",
     before |-> before, out |-> r.out, response |-> r.response,
     stdout |-> r.stdout, exit |-> r.exit, prev |-> prev]

NoRecord ==
    [op |-> "none", raw |-> SampleRaw, at |-> 0, llm |-> "none",
     fault |-> "none", installed |-> 1, resolved |-> FALSE,
     before |-> [config |-> config, cache |-> cache, checked |-> FALSE],
     out |-> NotResolved([config |-> config, cache |-> cache, checked |-> FALSE]),
     response |-> NullResponse, stdout |-> <<>>, exit |-> 0,
     prev |-> NoSummary]

\* The hook processes that may run at the same time (SpecConc).
Procs == {"p1", "p2"}

NoConfig ==
    [systemPromptVersion |-> 0, systemPrompt |-> 0, autoUpdateSystemPrompt |-> FALSE,
     cacheEnabled |-> FALSE, ttlHours |-> DefaultTtlHours]

NoResult == [decision |-> "none", reason |-> ""]

IdleProc ==
    [pc |-> "idle",
     req |-> [tool_name |-> "Read", tool_input |-> ReadInput, cwd |-> "/p2",
              session_id |-> "s1"],
     build |-> 0,           \* CURRENT_SYSTEM_PROMPT_VERSION of the process's build
     cfg |-> NoConfig,      \* the guard's `config` local
     llm |-> NoResult,      \* llmResult
     doc |-> EmptyCache,    \* the cache document as setCachedDecision read it
     hit |-> NoEntry,       \* the entry a cache hit served
     stored |-> 0,          \* the stored policy version at the time of the hit
     source |-> "none",
     decision |-> "none"]

InitialConfigs ==
    { [systemPromptVersion |-> 1, systemPrompt |-> 1,
       autoUpdateSystemPrompt |-> a, cacheEnabled |-> e,
       ttlHours |-> DefaultTtlHours] : a \in BOOLEAN, e \in BOOLEAN }


\* The state at the start of a run whose cache document is c.
InitWith(c) ==
    /\ config \in InitialConfigs
    /\ cache = c
    /\ now = 0
    /\ ticks = 0
    /\ installed = 1
    /\ promptUpgradeChecked = FALSE
    /\ calls = 0
    /\ prev = NoSummary
    /\ last = NoRecord
    /\ procs = [p \in Procs |-> IdleProc]
    /\ answered = {}
    /\ settings = [path \in SettingsPaths |-> AbsentFile]
    /\ setup = NoSetup

\* The cache document is absent: it reads as the empty one.
Init == InitWith(EmptyCache)

\* The cache document does not parse.
InitCorrupt == InitWith(CorruptCache)

\* A run is a number of operations followed by the observed one, whose record
\* `last` keeps; nothing runs after it.
Observing == last.op = "none"

\* Whether the next operation is the observed one: the last one allowed is.
Observe == IF calls + 1 < MaxCalls THEN BOOLEAN ELSE {TRUE}

\* A call of resolveDecision in the long-lived process.
ResolveDecisionCall ==
    /\ Observing
    /\ \E observe \in Observe :
       \E req \in (IF observe THEN Requests ELSE StepRequests),
          env \in (IF observe THEN ObservedEnvs(now, installed)
                               ELSE StepEnvs(now, installed)) :
        \E out \in {resolveDecision(Process, req, env)} :
            /\ config' = out.config
            /\ cache' = out.cache
            /\ promptUpgradeChecked' = out.checked
            /\ prev' = Summary(prev, RawOf(req), env, out)
            /\ last' = IF observe
                       THEN Record("resolveDecision", RawOf(req), env, Process,
                                   [out |-> out, response |-> NullResponse,
                                    stdout |-> <<>>, exit |-> 0])
                       ELSE last
    /\ calls' = calls + 1
    /\ UNCHANGED <<now, ticks, installed, procs, answered,
                   settings, setup>>

\* One run of `cc-approve permission`, from start to exit.
PermissionCommand ==
    /\ Observing
    /\ \E observe \in Observe :
       \E stdin \in (IF observe THEN RawInputs ELSE StepRaw),
          env \in (IF observe THEN ObservedEnvs(now, installed)
                               ELSE StepEnvs(now, installed)) :
        \E r \in {permissionCommand(Disk, stdin, env)} :
            /\ config' = r.out.config
            /\ cache' = r.out.cache
            /\ prev' = Summary(prev, stdin, env, r.out)
            /\ last' = IF observe
                       THEN Record("permission", stdin, env,
                                   [config |-> config, cache |-> cache,
                                    checked |-> FALSE], r)
                       ELSE last
    /\ calls' = calls + 1
    /\ UNCHANGED <<now, ticks, installed, promptUpgradeChecked, procs, answered,
                   settings, setup>>

\* Time passes.
Tick ==
    /\ Observing
    /\ ticks < MaxTicks
    /\ \E d \in {TtlSeconds(config) - 1, TtlSeconds(config) + 1} : now' = now + d
    /\ ticks' = ticks + 1
    /\ UNCHANGED <<config, cache, installed, promptUpgradeChecked, calls, prev,
                   last, procs, answered,
                   settings, setup>>

\* A build with a newer policy is installed; the long-lived process restarts on it.
InstallBuild ==
    /\ Observing
    /\ installed < MaxBuild
    /\ installed' = installed + 1
    /\ promptUpgradeChecked' = FALSE
    /\ UNCHANGED <<config, cache, now, ticks, calls, prev, last, procs, answered,
                   settings, setup>>

\* The long-lived process is restarted.
RestartProcess ==
    /\ Observing
    /\ promptUpgradeChecked
    /\ promptUpgradeChecked' = FALSE
    /\ UNCHANGED <<config, cache, now, ticks, installed, calls, prev, last, procs, answered,
                   settings, setup>>

Next ==
    \/ ResolveDecisionCall
    \/ Tick
    \/ InstallBuild
    \/ RestartProcess

Spec == Init /\ [][Next]_vars

\* The same calls, begun on a cache document that does not parse.
SpecCorrupt == InitCorrupt /\ [][Next]_vars

\* The hook as Claude Code runs it: one `cc-approve permission` process per
\* request.
NextCli ==
    \/ PermissionCommand
    \/ Tick
    \/ InstallBuild

SpecCli == Init /\ [][NextCli]_vars

\* What a PreToolUse hook hands to handlePreToolUse for a request.
PreToolUseRawOf(req) == [RawOf(req) EXCEPT !.hook_event_name = "PreToolUse"]

PreToolUseSample == PreToolUseRawOf(RequestOf(SampleRaw))

\* Payloads with a tool_name or a tool_input that is not what the hook sends.
PreToolUseMalformed ==
    { [PreToolUseSample EXCEPT !.tool_name = Missing],
      [PreToolUseSample EXCEPT !.tool_name = EmptyName],
      [PreToolUseSample EXCEPT !.tool_name = NotAString],
      [PreToolUseSample EXCEPT !.tool_input = NotAnObject],
      [PreToolUseSample EXCEPT !.tool_input = AbsentInput],
      [PreToolUseSample EXCEPT !.tool_name = "Bash", !.tool_input = NotAnObject] }

PreToolUseInputs == {PreToolUseRawOf(req) : req \in Requests} \cup PreToolUseMalformed

PreToolUseStepInputs == {PreToolUseRawOf(req) : req \in StepRequests}

\* A call of handlePreToolUse in the process that imported the module.
PreToolUseCall ==
    /\ Observing
    /\ \E observe \in Observe :
       \E raw \in (IF observe THEN PreToolUseInputs ELSE PreToolUseStepInputs),
          env \in (IF observe THEN ObservedEnvs(now, installed)
                               ELSE StepEnvs(now, installed)) :
        \E h \in {handlePreToolUse(Process, raw, env)} :
            /\ config' = h.out.config
            /\ cache' = h.out.cache
            /\ promptUpgradeChecked' = h.out.checked
            /\ prev' = Summary(prev, raw, env, h.out)
            /\ last' = IF observe
                       THEN Record("handlePreToolUse", raw, env, Process,
                                   [out |-> h.out, response |-> h.response,
                                    stdout |-> <<>>, exit |-> 0])
                       ELSE last
    /\ calls' = calls + 1
    /\ UNCHANGED <<now, ticks, installed, procs, answered,
                   settings, setup>>

NextPreToolUse ==
    \/ PreToolUseCall
    \/ Tick
    \/ InstallBuild
    \/ RestartProcess

SpecPreToolUse == Init /\ [][NextPreToolUse]_vars

----------------------------------------------------------------------------
(* Concurrent hook processes.  Every hook invocation is a process of its own *)
(* that runs resolveDecision once against the two shared documents; a step   *)
(* is one access to a document or one call out of the resolver.              *)

ConcRequests == { req \in StepRequests : req.cwd = NoCwd \/ req.tool_name = "Read" }

ConcLlmOutcomes == {"allow", "deny"}

ProjectRootOf(req) == IF req.cwd # NoCwd THEN resolveProjectRoot(req.cwd) ELSE NoRoot

ConcFrame ==
    UNCHANGED <<now, ticks, promptUpgradeChecked, calls, prev, last, settings, setup>>

\* The hook command starts: a fresh process of the installed build.
StartProcess(p) ==
    /\ procs[p].pc = "idle"
    /\ \E req \in ConcRequests :
           procs' = [procs EXCEPT ![p] = [IdleProc EXCEPT !.pc = "guard",
                                                          !.req = req,
                                                          !.build = installed]]
    /\ UNCHANGED <<config, cache, installed>>
    /\ ConcFrame
    /\ UNCHANGED answered

\* The guard reads the configuration and compares the versions.
GuardLoad(p) ==
    /\ procs[p].pc = "guard"
    /\ procs' = [procs EXCEPT ![p] =
                    IF NeedsUpgrade(config, procs[p].build)
                    THEN [@ EXCEPT !.pc = "save", !.cfg = config]
                    ELSE [@ EXCEPT !.pc = "fast"]]
    /\ UNCHANGED <<config, cache, installed>>
    /\ ConcFrame
    /\ UNCHANGED answered

\* saveConfig(config) with the build's prompt and version.
GuardSave(p) ==
    /\ procs[p].pc = "save"
    /\ config' = UpgradedConfig(procs[p].cfg, procs[p].build)
    /\ procs' = [procs EXCEPT ![p] = [@ EXCEPT !.pc = "clear", !.cfg = NoConfig]]
    /\ UNCHANGED <<cache, installed>>
    /\ ConcFrame
    /\ UNCHANGED answered

\* clearCache()
GuardClearCache(p) ==
    /\ procs[p].pc = "clear"
    /\ cache' = GuardClear(cache).cache
    /\ procs' = [procs EXCEPT ![p] = [@ EXCEPT !.pc = "fast"]]
    /\ UNCHANGED <<config, installed>>
    /\ ConcFrame
    /\ UNCHANGED answered

\* Tier 1.
FastStep(p) ==
    /\ procs[p].pc = "fast"
    /\ \E fr \in {checkFastDecision(procs[p].req.tool_name,
                                    procs[p].req.tool_input, TRUE)} :
           procs' = [procs EXCEPT ![p] =
                        IF FastTerminal(fr)
                        THEN [@ EXCEPT !.pc = "done", !.source = "fast",
                                       !.decision = fr.decision]
                        ELSE [@ EXCEPT !.pc = "lookup"]]
    /\ UNCHANGED <<config, cache, installed>>
    /\ ConcFrame
    /\ UNCHANGED answered

\* A tier 2 that goes back to the fast tier after a miss.
LookupStepRetry(p) ==
    /\ procs[p].pc = "lookup"
    /\ \E got \in {getCachedDecision(config, cache, now, procs[p].req.tool_name,
                                     procs[p].req.tool_input,
                                     CacheScope(ProjectRootOf(procs[p].req)))} :
           /\ cache' = got.cache
           /\ procs' = [procs EXCEPT ![p] =
                           IF got.hit
                           THEN [@ EXCEPT !.pc = "done", !.source = "cache",
                                          !.decision = CacheTierResult(got.entry).decision,
                                          !.hit = got.entry,
                                          !.stored = config.systemPromptVersion]
                           ELSE [@ EXCEPT !.pc = "fast"]]
    /\ UNCHANGED <<config, installed>>
    /\ ConcFrame
    /\ UNCHANGED answered

\* Tier 2: getCachedDecision on the documents as they are now.
LookupStep(p) ==
    /\ procs[p].pc = "lookup"
    /\ \E got \in {getCachedDecision(config, cache, now, procs[p].req.tool_name,
                                     procs[p].req.tool_input,
                                     CacheScope(ProjectRootOf(procs[p].req)))} :
           /\ cache' = got.cache
           /\ procs' = [procs EXCEPT ![p] =
                           IF got.hit
                           THEN [@ EXCEPT !.pc = "done", !.source = "cache",
                                          !.decision = CacheTierResult(got.entry).decision,
                                          !.hit = got.entry,
                                          !.stored = config.systemPromptVersion]
                           ELSE [@ EXCEPT !.pc = "query"]]
    /\ UNCHANGED <<config, installed>>
    /\ ConcFrame
    /\ UNCHANGED answered

\* Tier 3: the arbiter answers.
QueryStep(p) ==
    /\ procs[p].pc = "query"
    /\ \E outcome \in ConcLlmOutcomes :
           /\ procs' = [procs EXCEPT ![p] =
                           [@ EXCEPT !.pc = "store",
                                     !.llm = LlmTierResult(queryLLM(outcome))]]
           /\ answered' = answered \cup
                  {<<KeyOf(procs[p].req), LlmTierResult(queryLLM(outcome)).decision>>}
    /\ UNCHANGED <<config, cache, installed>>
    /\ ConcFrame

\* setCachedDecision reads the cache document ...
StoreRead(p) ==
    /\ procs[p].pc = "store"
    /\ procs' = [procs EXCEPT ![p] =
                    IF config.cacheEnabled /\ LlmTierCaches(procs[p].llm.decision)
                    THEN [@ EXCEPT !.pc = "write", !.doc = cache]
                    ELSE [@ EXCEPT !.pc = "done", !.source = "llm",
                                   !.decision = procs[p].llm.decision]]
    /\ UNCHANGED <<config, cache, installed>>
    /\ ConcFrame
    /\ UNCHANGED answered

\* ... and writes it back with the new entry.
StoreWrite(p) ==
    /\ procs[p].pc = "write"
    /\ cache' = setCachedDecision(config, procs[p].doc, now, procs[p].req.tool_name,
                                  procs[p].req.tool_input, procs[p].llm.decision,
                                  procs[p].llm.reason,
                                  CacheScope(ProjectRootOf(procs[p].req)),
                                  config.systemPrompt).cache
    /\ procs' = [procs EXCEPT ![p] = [@ EXCEPT !.pc = "done", !.source = "llm",
                                               !.decision = procs[p].llm.decision,
                                               !.doc = EmptyCache]]
    /\ UNCHANGED <<config, installed>>
    /\ ConcFrame
    /\ UNCHANGED answered

\* The process has answered and exits.
ExitProcess(p) ==
    /\ procs[p].pc = "done"
    /\ procs' = [procs EXCEPT ![p] = IdleProc]
    /\ UNCHANGED <<config, cache, installed>>
    /\ ConcFrame
    /\ UNCHANGED answered

NextConc ==
    \/ \E p \in Procs : StartProcess(p)
    \/ \E p \in Procs : GuardLoad(p)
    \/ \E p \in Procs : GuardSave(p)
    \/ \E p \in Procs : GuardClearCache(p)
    \/ \E p \in Procs : FastStep(p)
    \/ \E p \in Procs : LookupStep(p)
    \/ \E p \in Procs : QueryStep(p)
    \/ \E p \in Procs : StoreRead(p)
    \/ \E p \in Procs : StoreWrite(p)
    \/ \E p \in Procs : ExitProcess(p)
    \/ InstallBuild

SpecConc == Init /\ [][NextConc]_vars

\* A step of a process that has started: it keeps running until it has its
\* answer, and the arbiter call returns or times out.
ProcStep(p) ==
    \/ GuardLoad(p)
    \/ GuardSave(p)
    \/ GuardClearCache(p)
    \/ FastStep(p)
    \/ LookupStep(p)
    \/ QueryStep(p)
    \/ StoreRead(p)
    \/ StoreWrite(p)

SpecConcFair == SpecConc /\ \A p \in Procs : WF_vars(ProcStep(p))

\* loadConfig, saveConfig or clearCache throws, or the process exits, before
\* the guard's next step has taken effect: the process ends with the
\* command's deny and what the guard had done so far stays done.
GuardFails(p) ==
    /\ procs[p].pc \in {"guard", "save", "clear"}
    /\ procs' = [procs EXCEPT ![p] = [@ EXCEPT !.pc = "done", !.source = "error",
                                               !.decision = "deny",
                                               !.cfg = NoConfig]]
    /\ UNCHANGED <<config, cache, installed>>
    /\ ConcFrame
    /\ UNCHANGED answered

NextCrash ==
    \/ NextConc
    \/ \E p \in Procs : GuardFails(p)

\* The concurrent processes, with guards that may fail.
SpecCrash == Init /\ [][NextCrash]_vars

-----------------------------------------------------------------------------
(* Concurrent writers of the cache document: processes of one build whose   *)
(* requests the fast tier leaves unclassified, under three project roots.   *)

WriterRequests ==
    { req \in Requests : req.tool_input.value = "git push origin feature/foo" }

InitWriters == Init /\ config.cacheEnabled /\ config.autoUpdateSystemPrompt

\* The hook command starts on a request the fast tier does not classify.
StartWriter(p) ==
    /\ procs[p].pc = "idle"
    /\ \E req \in WriterRequests :
           procs' = [procs EXCEPT ![p] = [IdleProc EXCEPT !.pc = "guard",
                                                          !.req = req,
                                                          !.build = installed]]
    /\ UNCHANGED <<config, cache, installed>>
    /\ ConcFrame
    /\ UNCHANGED answered

NextWriters ==
    \/ \E p \in Procs : StartWriter(p)
    \/ \E p \in Procs : GuardLoad(p)
    \/ \E p \in Procs : FastStep(p)
    \/ \E p \in Procs : LookupStep(p)
    \/ \E p \in Procs : QueryStep(p)
    \/ \E p \in Procs : StoreRead(p)
    \/ \E p \in Procs : StoreWrite(p)
    \/ \E p \in Procs : ExitProcess(p)

SpecWriters == InitWriters /\ [][NextWriters]_vars

-----------------------------------------------------------------------------
(* cc-approve install followed by cc-approve uninstall                      *)

InitInstall ==
    /\ config \in InitialConfigs
    /\ cache = EmptyCache
    /\ now = 0
    /\ ticks = 0
    /\ installed = 1
    /\ promptUpgradeChecked = FALSE
    /\ calls = 0
    /\ prev = NoSummary
    /\ last = NoRecord
    /\ procs = [p \in Procs |-> IdleProc]
    /\ answered = {}
    /\ settings \in [SettingsPaths -> InitialFiles]
    /\ setup = [NoSetup EXCEPT !.before = settings]

InstallFrame ==
    UNCHANGED <<cache, now, ticks, installed, promptUpgradeChecked, calls, prev,
                last, procs, answered>>

\* `cc-approve install`: the API key is validated; when it is valid the
\* configuration is saved and the hook is written to the chosen scope's
\* settings file, otherwise the command returns.
InstallCommand ==
    /\ setup.phase = "start"
    /\ \E scope \in Scopes, keyValid \in BOOLEAN :
          IF keyValid
          THEN /\ config' \in installConfigs(installed)
               /\ settings' = installHook(settings, scope)
               /\ setup' = [setup EXCEPT !.phase = "installed", !.scope = scope,
                                         !.path = installPath(settings, scope)]
          ELSE /\ setup' = [setup EXCEPT !.phase = "failed", !.scope = scope]
               /\ UNCHANGED <<config, settings>>
    /\ InstallFrame

\* `cc-approve uninstall`
UninstallCommand ==
    /\ setup.phase \in {"installed", "failed"}
    /\ settings' = uninstallHook(settings)
    /\ setup' = [setup EXCEPT !.phase = IF @ = "installed" THEN "uninstalled"
                                        ELSE "removed"]
    /\ UNCHANGED config
    /\ InstallFrame

NextInstall ==
    \/ InstallCommand
    \/ UninstallCommand

SpecInstall == InitInstall /\ [][NextInstall]_vars

----------------------------------------------------------------------------
(* Properties.  `last` is the record of the observed operation: the request, *)
(* the documents before it, and what it did and returned.                    *)

Ran == last.op # "none"

\* resolveDecision was entered and returned a result.
Returned == Ran /\ last.resolved /\ ~last.out.threw

LastKey == KeyOf(last.raw)

\* The entry for the observed request's key in the document the lookup read
\* (the document as the guard left it), when it is there and fresh.
FreshEntryFor(l) ==
    /\ l.before.config.cacheEnabled
    /\ KeyOf(l.raw) \in DOMAIN l.out.guardCache
    /\ IsFresh(l.out.config, l.out.guardCache[KeyOf(l.raw)], l.at)

AllowAnswer == <<createPermissionAllowResponse>>

\* C1: the permission command answers allow only if the fast tier classified
\* the request allow, or a fresh cache entry for its key holds allow, or the
\* arbiter returned a well-formed allow; otherwise it is silent (exit 0) only
\* for a fast-tier passthrough, and in every other case it answers deny.
C1_FailClosed ==
    last.op = "permission" =>
        /\ last.stdout = AllowAnswer =>
              /\ ~last.out.threw
              /\ \/ last.out.fast = "allow"
                 \/ /\ last.out.fast = "unknown"
                    /\ FreshEntryFor(last)
                    /\ last.out.guardCache[LastKey].decision = "allow"
                 \/ /\ last.out.fast = "unknown"
                    /\ last.out.llmCalls = 1
                    /\ last.llm = "allow"
        /\ last.stdout = <<>> =>
              ~last.out.threw /\ last.out.fast = "passthrough" /\ last.exit = 0
        /\ last.stdout # AllowAnswer /\ last.stdout # <<>> =>
              Len(last.stdout) = 1 /\ last.stdout[1].behavior = "deny"

\* C1 witness: a call threw after the arbiter had answered allow, and the
\* process answered deny.
C1_Witness ==
    /\ last.op = "permission"
    /\ last.out.threw
    /\ last.llm = "allow"
    /\ Len(last.stdout) = 1
    /\ last.stdout[1].behavior = "deny"

\* C2 as stated: a fast-tier result is returned as it is, without an arbiter
\* call or a cache write, and the cache document is the same after the
\* resolution as before it.
C2_Original ==
    Returned /\ last.out.fast \in {"allow", "deny", "passthrough"} =>
        /\ last.out.decision = last.out.fast
        /\ last.out.source = "fast"
        /\ last.out.llmCalls = 0
        /\ last.out.stores = 0
        /\ last.out.cache = last.before.cache

\* C2 amended: a fast-tier result is returned as it is, without a cache
\* lookup, an arbiter call or a cache write; the cache document is left as the
\* policy guard left it, which is as it was before the call unless this call's
\* guard upgraded the policy and emptied it.
C2_FastTerminal ==
    Returned /\ last.out.fast \in {"allow", "deny", "passthrough"} =>
        /\ last.out.decision = last.out.fast
        /\ last.out.source = "fast"
        /\ last.out.llmCalls = 0
        /\ last.out.lookups = 0
        /\ last.out.stores = 0
        /\ last.out.cache = last.out.guardCache
        /\ IF last.out.cleared THEN last.out.cache = EmptyCache
           ELSE last.out.cache = last.before.cache

\* C2 witness: a fast-tier deny returned while the cache held entries.
C2_Witness ==
    /\ Returned
    /\ last.out.fast = "deny"
    /\ ~last.out.cleared
    /\ last.before.cache # EmptyCache

\* A cache document that holds a fresh allow for the request's key.
Planted(c, req, t, policy) ==
    setCachedDecision([cacheEnabled |-> TRUE], c, t, req.tool_name, req.tool_input,
                      "allow", "planted", IF req.cwd # NoCwd
                                          THEN resolveProjectRoot(req.cwd)
                                          ELSE NoRoot, policy).cache

FastDenyRequests ==
    { req \in Requests :
        checkFastDecision(req.tool_name, req.tool_input, TRUE).decision = "deny" }

\* The environment of the observed call, without a throw, under arbiter
\* outcome l.
EnvAgain(l, reasonGiven) ==
    [now |-> last.at, installed |-> last.installed, llm |-> l,
     reasonGiven |-> reasonGiven, fault |-> "none"]

\* What a call returns.
ResultOf(out) == [decision |-> out.decision, reason |-> out.reason, source |-> out.source]

\* The observed call made again from the same documents, but with a fresh
\* allow for its key planted in the cache, under arbiter outcome l.
AgainOnPlanted(l, reasonGiven) ==
    resolveDecision(
        [last.before EXCEPT !.cache = Planted(@, RequestOf(last.raw), last.at,
                                              last.before.config.systemPrompt)],
        RequestOf(last.raw), EnvAgain(l, reasonGiven))

\* C3: a request the fast tier denies resolves to deny with source fast
\* whatever the cache holds and whatever the arbiter would answer: the call
\* returned a deny from the fast tier without an arbiter call, and the same
\* call on a cache that holds a fresh allow for the same key returns the same
\* result under every arbiter outcome.
C3_FastDenyRegardless ==
    Returned /\ RequestOf(last.raw) \in FastDenyRequests =>
        /\ last.out.decision = "deny"
        /\ last.out.source = "fast"
        /\ last.out.llmCalls = 0
        /\ \E reasonGiven \in BOOLEAN :
             \A l \in LlmOutcomes :
                 \A b \in {AgainOnPlanted(l, reasonGiven)} :
                     /\ ResultOf(b) = ResultOf(last.out)
                     /\ b.llmCalls = 0
                     /\ b.lookups = 0

\* C3 witness: `rm -rf /` was denied by the fast tier while the cache held
\* entries and caching was enabled.
C3_Witness ==
    /\ Returned
    /\ last.raw.tool_input = BashInput("rm -rf /")
    /\ last.out.decision = "deny"
    /\ last.out.source = "fast"
    /\ last.before.config.cacheEnabled
    /\ last.out.cache # EmptyCache

\* C4 as stated: an always-allowed tool resolves to allow from the fast tier
\* with no read of the cache document and no network call.
C4_Original ==
    Returned /\ last.raw.tool_name \in AlwaysAllowTools =>
        /\ last.out.decision = "allow"
        /\ last.out.source = "fast"
        /\ last.out.cacheReads = 0
        /\ last.out.llmCalls = 0

\* C4 amended: an always-allowed tool resolves to allow from the fast tier
\* with no cache lookup, no cache store and no network call; the cache
\* document is read only by the policy guard's clearCache, once, in a call
\* whose guard upgrades the policy.
C4_AlwaysAllow ==
    Returned /\ last.raw.tool_name \in AlwaysAllowTools =>
        /\ last.out.decision = "allow"
        /\ last.out.source = "fast"
        /\ last.out.lookups = 0
        /\ last.out.stores = 0
        /\ last.out.llmCalls = 0
        /\ last.out.cacheReads = IF last.out.cleared THEN 1 ELSE 0

\* C4 witness: an always-allowed tool was resolved in the call whose guard
\* emptied a cache that held entries.
C4_Witness ==
    /\ Returned
    /\ last.raw.tool_name \in AlwaysAllowTools
    /\ last.out.cleared
    /\ last.before.cache # EmptyCache

\* C5: on a fresh cache hit the resolution returns the entry's decision and
\* reason, writes one log record with source cache, calls no arbiter and
\* leaves the cache document as it was, the entry's timestamp included.
C5_CacheHit ==
    Returned /\ last.out.lookups = 1 /\ last.out.hit # NoEntry =>
        /\ last.out.fast = "unknown"
        /\ FreshEntryFor(last)
        /\ last.out.hit = last.before.cache[LastKey]
        /\ last.out.decision = last.out.hit.decision
        /\ last.out.reason = last.out.hit.reason
        /\ last.out.source = "cache"
        /\ Len(last.out.logs) = 1
        /\ last.out.logs[1].decisionSource = "cache"
        /\ last.out.logs[1].decision = last.out.hit.decision
        /\ last.out.llmCalls = 0
        /\ last.out.stores = 0
        /\ last.out.cacheWrites = 0
        /\ last.out.cache = last.before.cache

\* C5 witness: a hit, later on the clock, on an allow the arbiter gave earlier.
C5_Witness ==
    /\ Returned
    /\ last.out.source = "cache"
    /\ last.out.hit.decision = "allow"
    /\ last.out.hit.timestamp < last.at

\* The observed resolution repeats the request of the resolution before it:
\* same tool, input and project root, no later than the ttl after the entry
\* the earlier one wrote or was served from, and with no policy upgrade between.
Repeats ==
    /\ Returned
    /\ last.out.fast = "unknown"
    /\ last.prev.valid
    /\ ~last.prev.threw
    /\ last.prev.key = LastKey
    /\ last.at - last.prev.entryTime <= TtlSeconds(last.before.config)
    /\ ~last.out.cleared

\* C6 as stated: the second of two identical resolutions returns the decision
\* and reason of the first with source cache, and the two together call the
\* arbiter exactly once.
C6_Original ==
    Repeats =>
        /\ last.out.decision = last.prev.decision
        /\ last.out.reason = last.prev.reason
        /\ last.out.source = "cache"
        /\ last.prev.llmCalls + last.out.llmCalls = 1

\* C6 amended: with caching enabled, the second of two identical resolutions
\* returns the decision and reason of the first with source cache and calls no
\* arbiter; the two together call the arbiter at most once, and exactly once
\* when the first was not itself served from the cache.
C6_Idempotent ==
    Repeats /\ last.before.config.cacheEnabled =>
        /\ last.out.decision = last.prev.decision
        /\ last.out.reason = last.prev.reason
        /\ last.out.source = "cache"
        /\ last.out.llmCalls = 0
        /\ last.prev.llmCalls + last.out.llmCalls <= 1
        /\ last.prev.source = "llm" => last.prev.llmCalls + last.out.llmCalls = 1

\* C6 witness: the repeat comes later on the clock, after the arbiter's allow.
C6_Witness ==
    /\ Repeats
    /\ last.before.config.cacheEnabled
    /\ last.prev.source = "llm"
    /\ last.prev.decision = "allow"
    /\ last.at > last.prev.entryTime

\* What the arbiter call of the observed resolution returned.
LastLlmResult ==
    [decision |-> queryLLM(last.llm).decision, reason |-> queryLLM(last.llm).reason]

\* C7 as stated: an LLM-tier resolution returns the arbiter's decision and
\* reason and has written them under the key of its lookup; from an empty
\* cache the document then holds exactly that one entry.
C7_Original ==
    Returned /\ last.out.source = "llm" =>
        /\ last.out.decision = LastLlmResult.decision
        /\ last.out.reason = LastLlmResult.reason
        /\ LastKey \in DOMAIN last.out.cache
        /\ last.out.cache[LastKey].decision = LastLlmResult.decision
        /\ last.out.cache[LastKey].reason = LastLlmResult.reason
        /\ last.before.cache = EmptyCache => DOMAIN last.out.cache = {LastKey}

\* C7 amended: an LLM-tier resolution returns the arbiter's decision and
\* reason; with caching enabled it has written them, stamped with the time of
\* the call, under the key of its lookup and left every other entry alone, so
\* that from an empty cache the document holds exactly that one entry; with
\* caching disabled it writes nothing.
C7_LlmTierWrites ==
    Returned /\ last.out.source = "llm" =>
        /\ last.out.decision = LastLlmResult.decision
        /\ last.out.reason = LastLlmResult.reason
        /\ last.out.llmCalls = 1
        /\ IF last.before.config.cacheEnabled
           THEN /\ LastKey \in DOMAIN last.out.cache
                /\ last.out.cache[LastKey].decision = LastLlmResult.decision
                /\ last.out.cache[LastKey].reason = LastLlmResult.reason
                /\ last.out.cache[LastKey].timestamp = last.at
                /\ DOMAIN last.out.cache = DOMAIN last.out.guardCache \cup {LastKey}
                /\ \A k \in DOMAIN last.out.guardCache \ {LastKey} :
                       last.out.cache[k] = last.out.guardCache[k]
                /\ last.out.guardCache = EmptyCache =>
                       DOMAIN last.out.cache = {LastKey}
           ELSE last.out.cache = last.out.guardCache

\* C7 witness: an arbiter allow written into a cache that was empty.
C7_Witness ==
    /\ Returned
    /\ last.out.source = "llm"
    /\ last.llm = "allow"
    /\ last.before.cache = EmptyCache
    /\ DOMAIN last.out.cache = {LastKey}

\* C8 as stated: an entry is created or overwritten only by an LLM-tier
\* resolution whose arbitration succeeded, never by one that failed and was
\* resolved to the fail-closed deny.
C8_Claim ==
    Ran /\ last.resolved =>
        \A k \in DOMAIN last.out.cache :
            (k \notin DOMAIN last.out.guardCache
                \/ last.out.cache[k] # last.out.guardCache[k]) =>
                /\ k = LastKey
                /\ last.out.llmCalls = 1
                /\ LlmSucceeded(last.llm)

GuardFaults == {"loadConfig", "saveConfig", "clearCache"}

GuardThrew == last.out.threw /\ last.fault \in GuardFaults

ServedUnderCurrentPolicy(p) ==
    /\ procs[p].pc = "done"
    /\ procs[p].source = "cache"
    /\ procs[p].stored = procs[p].build

\* C10 as stated: under every interleaving of hook processes, once the stored
\* policy version equals the build's, no request is resolved from a cache
\* entry written while an older policy version was stored.
C10_Claim ==
    \A p \in Procs :
        ServedUnderCurrentPolicy(p) => procs[p].hit.policy >= procs[p].stored

\* C10: the state the claim excludes: a process was answered allow from an
\* entry written under the older policy while the stored version was already
\* its build's.
C10_StaleApproval ==
    \E p \in Procs :
        /\ ServedUnderCurrentPolicy(p)
        /\ procs[p].hit.policy < procs[p].stored
        /\ procs[p].decision = "allow"

\* C11: the guard works at most once per process: a call made after the
\* process's first (the flag is already set) loads no configuration, saves
\* none, clears no cache and leaves both documents to the tiers as they were;
\* every call, the first included and even when it throws, leaves the flag set.
C11_GuardOnce ==
    last.op = "resolveDecision" =>
        /\ last.out.checked
        /\ last.before.checked =>
              /\ last.out.configLoads = 0
              /\ last.out.configSaves = 0
              /\ ~last.out.upgraded
              /\ ~last.out.cleared
              /\ ~GuardThrew
              /\ last.out.config = last.before.config
              /\ last.out.guardCache = last.before.cache
        /\ (last.out.configLoads > 0 \/ last.out.configSaves > 0 \/ last.out.cleared)
              => ~last.before.checked

\* C11 witness: a later call of a process found the stored version older
\* than the build's, with auto-update set, and left it so.
C11_Witness ==
    /\ Returned
    /\ last.before.checked
    /\ last.before.config.autoUpdateSystemPrompt
    /\ last.before.config.systemPromptVersion < last.installed
    /\ last.out.config = last.before.config

\* The project roots a request can carry.
ProjectRoots == {NoRoot} \cup {resolveProjectRoot(d) : d \in Cwds \ {NoCwd}}

\* The keys of the same tool and input under another project root.
OtherRootKeys(l) ==
    { generateCacheKey(l.raw.tool_name, l.raw.tool_input, root) :
          root \in ProjectRoots \ {KeyOf(l.raw)[3]} }

\* C12: the key of a request is its (tool, input, project root), different
\* roots giving different keys; a lookup hits only on the entry under the
\* request's own key, a store writes only there, and an entry for the same
\* tool and input under another root is never served.
C12_CacheScoping ==
    /\ LastKey \notin OtherRootKeys(last)
    /\ Returned /\ last.out.lookups = 1 =>
          /\ last.out.hit # NoEntry =>
                /\ LastKey \in DOMAIN last.out.guardCache
                /\ last.out.hit = last.out.guardCache[LastKey]
          /\ LastKey \notin DOMAIN last.out.guardCache => last.out.source = "llm"
          /\ DOMAIN last.out.cache \subseteq DOMAIN last.out.guardCache \cup {LastKey}
          /\ \A k \in OtherRootKeys(last) \cap DOMAIN last.out.guardCache :
                 /\ k \in DOMAIN last.out.cache
                 /\ last.out.cache[k] = last.out.guardCache[k]

\* C12 witness: the arbiter was asked although a fresh allow for the same
\* tool and input was in the cache under another project root.
C12_Witness ==
    /\ Returned
    /\ last.out.source = "llm"
    /\ \E k \in OtherRootKeys(last) \cap DOMAIN last.out.guardCache :
           /\ last.out.guardCache[k].decision = "allow"
           /\ IsFresh(last.out.config, last.out.guardCache[k], last.at)

\* C13: a lookup hits only on a key match with now - timestamp within
\* ttlHours * 3600 seconds: an entry one second short of the ttl is served,
\* an entry one second past it is not, and the resolution then asks the
\* arbiter and stores its answer as it does for a missing entry.
C13_Ttl ==
    /\ Returned /\ last.out.source = "cache" => FreshEntryFor(last)
    /\ /\ Returned
       /\ last.out.fast = "unknown"
       /\ last.before.config.cacheEnabled
       /\ LastKey \in DOMAIN last.out.guardCache
       => IF last.at - last.out.guardCache[LastKey].timestamp
                <= last.before.config.ttlHours * 3600
          THEN /\ last.out.source = "cache"
               /\ last.out.hit = last.out.guardCache[LastKey]
               /\ last.out.llmCalls = 0
          ELSE /\ last.out.source = "llm"
               /\ last.out.hit = NoEntry
               /\ last.out.llmCalls = 1
               /\ last.out.decision = LastLlmResult.decision
               /\ last.out.reason = LastLlmResult.reason
               /\ last.out.cache[LastKey].timestamp = last.at

\* C13 witness: an entry one second past its ttl was not served.
C13_Witness ==
    /\ Returned
    /\ last.before.config.cacheEnabled
    /\ LastKey \in DOMAIN last.out.guardCache
    /\ last.at - last.out.guardCache[LastKey].timestamp
           = last.before.config.ttlHours * 3600 + 1
    /\ last.out.source = "llm"

\* C14: every entry of the cache document holds allow or deny, and a
\* resolution that ends in passthrough comes from the fast tier and writes
\* nothing to the cache.
C14_PassthroughNeverCached ==
    /\ \A k \in DOMAIN cache : cache[k].decision \in {"allow", "deny"}
    /\ Returned /\ last.out.fast = "passthrough" =>
          /\ last.out.decision = "passthrough"
          /\ last.out.stores = 0
          /\ last.out.cache = last.out.guardCache
    /\ Returned /\ last.out.decision = "passthrough" =>
          /\ last.out.fast = "passthrough"
          /\ last.out.stores = 0
          /\ last.out.cache = last.out.guardCache

\* C14 witness: a passthrough returned while the cache held entries.
C14_Witness ==
    /\ Returned
    /\ last.out.decision = "passthrough"
    /\ last.out.cache # EmptyCache

\* Standard input parsed as JSON but is not a permission request: wrong
\* hook_event_name, tool_name missing or not a string, tool_input not an object.
SchemaFails(raw) ==
    /\ raw.parses
    /\ \/ raw.hook_event_name # "PermissionRequest"
       \/ raw.tool_name \in {Missing, NotAString}
       \/ raw.tool_input = NotAnObject

\* The observed command wrote exactly one deny response with a message.
WroteOneDeny ==
    /\ Len(last.stdout) = 1
    /\ last.stdout[1].behavior = "deny"
    /\ last.stdout[1].message # ""

\* C15: a raw request that fails schema validation gets a deny response with
\* a diagnostic message, and neither the policy guard nor the fast tier, the
\* cache or the arbiter runs: nothing is loaded, looked up, asked, logged or
\* changed.
C15_InvalidInputDenied ==
    last.op = "permission" /\ SchemaFails(last.raw) =>
        /\ last.response.behavior = "deny"
        /\ last.response.message # ""
        /\ last.stdout = <<last.response>>
        /\ ~last.resolved
        /\ ~last.out.threw
        /\ last.out.configLoads = 0
        /\ last.out.configSaves = 0
        /\ last.out.rootResolves = 0
        /\ last.out.lookups = 0
        /\ last.out.llmCalls = 0
        /\ last.out.stores = 0
        /\ last.out.logs = <<>>
        /\ last.out.config = last.before.config
        /\ last.out.cache = last.before.cache

\* C15 witness: an invalid request was denied while the stored policy was
\* older than the build's, and the guard did not upgrade it.
C15_Witness ==
    /\ last.op = "permission"
    /\ SchemaFails(last.raw)
    /\ last.response.behavior = "deny"
    /\ last.before.config.autoUpdateSystemPrompt
    /\ last.before.config.systemPromptVersion < last.installed
    /\ config = last.before.config

\* C16: when parsing standard input or any call of the guard or the resolver
\* throws, the command writes exactly one deny response; the command never
\* writes more than one response, and it writes none only for a passthrough.
C16_FaultDenied ==
    last.op = "permission" =>
        /\ (~last.raw.parses \/ last.out.threw) => WroteOneDeny
        /\ Len(last.stdout) <= 1
        /\ Len(last.stdout) = 1 => last.stdout[1].behavior \in {"allow", "deny"}
        /\ last.stdout = <<>> =>
              /\ ~last.out.threw
              /\ last.out.decision = "passthrough"
              /\ last.exit = 0

\* C16 witness: logging threw after the arbiter's allow had been stored, and
\* the command answered deny.
C16_Witness ==
    /\ last.op = "permission"
    /\ last.fault = "logDecision"
    /\ last.out.stores = 1
    /\ last.llm = "allow"
    /\ WroteOneDeny

\* C17 as stated: a deny for a well-formed request exits 0, and malformed
\* input, unparseable or failing the schema, is denied with a non-zero exit.
C17_Claim ==
    last.op = "permission" =>
        /\ Returned /\ last.out.decision = "deny" =>
              WroteOneDeny /\ last.exit = 0
        /\ (~last.raw.parses \/ SchemaFails(last.raw)) =>
              WroteOneDeny /\ last.exit # 0

\* C17: the state the claim excludes: a request failing the schema was denied
\* and the command exited 0.
C17_SchemaFailureExitsZero ==
    /\ last.op = "permission"
    /\ SchemaFails(last.raw)
    /\ WroteOneDeny
    /\ last.exit = 0

\* C18: for a valid request whose resolution returns, the output follows the
\* decision: allow writes one allow response, deny writes one deny response
\* whose message is the resolved reason, passthrough writes nothing; the exit
\* status is 0 in all three.
C18_ResponseMapping ==
    last.op = "permission" /\ Returned =>
        /\ last.out.decision \in {"allow", "deny", "passthrough"}
        /\ last.out.decision = "allow" =>
              last.stdout = <<[behavior |-> "allow", message |-> ""]>>
        /\ last.out.decision = "deny" =>
              last.stdout = <<[behavior |-> "deny", message |-> last.out.reason]>>
        /\ last.out.decision = "passthrough" => last.stdout = <<>>
        /\ last.exit = 0

\* C18 witness: the arbiter's deny was written with its reason.
C18_Witness ==
    /\ last.op = "permission"
    /\ Returned
    /\ last.out.source = "llm"
    /\ last.out.decision = "deny"
    /\ last.stdout = <<[behavior |-> "deny", message |-> "dangerous operation"]>>
    /\ last.exit = 0

ArbiterFailures == LlmOutcomes \ {"allow", "deny"}

\* C19: when the arbiter request ends in a transport error, a timeout or a
\* malformed response, the resolution returns deny with a non-empty reason
\* from the LLM tier, nothing is thrown, and the arbiter was asked once.
C19_ArbiterFailureDenies ==
    last.op = "resolveDecision" /\ last.llm \in ArbiterFailures =>
        /\ ~last.out.threw
        /\ last.out.decision = "deny"
        /\ last.out.reason # ""
        /\ last.out.source = "llm"
        /\ last.out.llmCalls = 1
        /\ Len(last.out.logs) = 1
        /\ last.out.logs[1].decision = "deny"

\* C19 witness: the arbiter timed out on a request that had no cache entry,
\* and the resolution returned deny.
C19_Witness ==
    /\ last.op = "resolveDecision"
    /\ last.llm = "timeout"
    /\ last.out.decision = "deny"
    /\ last.out.reason = "LLM request timed out"

\* C20: within one resolution the cache is looked up at most once and only
\* after the fast tier returned unknown; the arbiter is asked at most once and
\* only after that lookup, which served no entry: none under the key, a stale
\* one, or caching disabled.
C20_TierOrdering ==
    last.op = "resolveDecision" =>
        /\ last.out.lookups <= 1
        /\ last.out.llmCalls <= 1
        /\ last.out.lookups = 1 => last.out.fast = "unknown"
        /\ last.out.llmCalls = 1 =>
              /\ last.out.fast = "unknown"
              /\ last.out.lookups = 1
              /\ last.out.hit = NoEntry
              /\ ~FreshEntryFor(last)
        /\ last.out.stores = 1 => last.out.llmCalls = 1

\* C20 witness: the arbiter was asked after a lookup that found the key's
\* entry stale.
C20_Witness ==
    /\ last.op = "resolveDecision"
    /\ last.out.llmCalls = 1
    /\ last.out.lookups = 1
    /\ last.before.config.cacheEnabled
    /\ LastKey \in DOMAIN last.out.guardCache
    /\ ~IsFresh(last.out.config, last.out.guardCache[LastKey], last.at)

\* ---------------------------------------------------------------------------
\* C21: audit log records
\* ---------------------------------------------------------------------------

\* The one log record of the observed operation carries the result's decision
\* and source tier, a reason, and the request's tool name, session id and
\* project root.
LoggedOnce ==
    /\ Len(last.out.logs) = 1
    /\ last.out.logs[1].decision = last.out.decision
    /\ last.out.logs[1].decisionSource = last.out.source
    /\ last.out.logs[1].decisionSource \in {"fast", "cache", "llm"}
    /\ last.out.logs[1].reason # ""
    /\ last.out.logs[1].toolName = last.raw.tool_name
    /\ last.out.logs[1].sessionId = last.raw.session_id
    /\ last.out.logs[1].projectRoot =
          (IF last.raw.cwd # NoCwd THEN resolveProjectRoot(last.raw.cwd)
           ELSE NoRoot)

\* C21 as stated: every terminal outcome of a request that no fault
\* interrupted, the deny for invalid input included, emits exactly one audit
\* log record carrying the decision, the reason, the source tier, the tool
\* name, the session id and the project root.
C21_Claim ==
    last.op = "permission" /\ last.raw.parses /\ ~last.out.threw => LoggedOnce

\* C21: the deny for a request that fails schema validation was written and no
\* log record was.
C21_InvalidInputNotLogged ==
    /\ last.op = "permission"
    /\ SchemaFails(last.raw)
    /\ WroteOneDeny
    /\ last.out.logs = <<>>

\* ---------------------------------------------------------------------------
\* C22: concurrent writers of the cache document
\* ---------------------------------------------------------------------------

\* Process p replaces the cache document in this step.
WriteStep(p) == procs[p].pc = "write" /\ procs'[p].pc = "done"

\* The key process p writes its entry under.
WrittenKey(p) ==
    generateCacheKey(procs[p].req.tool_name, procs[p].req.tool_input,
                     CacheScope(ProjectRootOf(procs[p].req)))

\* The entries of other keys that p's replacement of the document undoes:
\* they are in the document now and are gone or different afterwards.
LostBy(p) ==
    { k \in DOMAIN cache \ {WrittenKey(p)} :
        k \notin DOMAIN cache' \/ cache'[k] # cache[k] }

\* The keys whose entry changed between p's read of the document and now.
ChangedSinceRead(p) ==
    { k \in DOMAIN cache : k \notin DOMAIN procs[p].doc \/ procs[p].doc[k] # cache[k] }

\* Every process answered from the cache returns a decision the arbiter
\* returned for that request's key.
HitsWereAnswered ==
    \A p \in Procs :
        procs[p].pc = "done" /\ procs[p].source = "cache" =>
            <<KeyOf(procs[p].req), procs[p].decision>> \in answered

\* C22 as stated: a process's replacement of the cache document loses at most
\* one update of another process, and no process returns from the cache a
\* decision other than one the arbiter returned for that same key.
C22_Original ==
    [][ /\ \A p \in Procs : WriteStep(p) => Cardinality(LostBy(p)) <= 1
        /\ HitsWereAnswered' ]_vars

\* C22 (amended): the last writer wins: the document after a process's write
\* is the document that process read with its own entry put at its key, so
\* what the write undoes is exactly what was written between its read and its
\* write, however many entries that is; and no process returns from the cache
\* a decision other than one the arbiter returned for that same key.
C22_LastWriterWins ==
    [][ /\ \A p \in Procs :
              WriteStep(p) =>
                 /\ DOMAIN cache' = DOMAIN procs[p].doc \cup {WrittenKey(p)}
                 /\ cache'[WrittenKey(p)].decision = procs[p].llm.decision
                 /\ cache'[WrittenKey(p)].reason = procs[p].llm.reason
                 /\ \A k \in DOMAIN cache' \ {WrittenKey(p)} :
                       cache'[k] = procs[p].doc[k]
                 /\ LostBy(p) = ChangedSinceRead(p) \ {WrittenKey(p)}
        /\ HitsWereAnswered' ]_vars

\* C22 witness: one process has written its entry over a document in which
\* the arbiter's answers for two other keys had been stored since it read,
\* both are gone, and the other process has then been answered from the cache.
C22_Witness ==
    \E p, q \in Procs :
        /\ procs[p].pc = "done" /\ procs[p].source = "llm"
        /\ procs[q].pc = "done" /\ procs[q].source = "cache"
        /\ Cardinality({ k \in {a[1] : a \in answered} : k \notin DOMAIN cache }) >= 2

\* ---------------------------------------------------------------------------
\* C23: concurrent first-time upgrades
\* ---------------------------------------------------------------------------

\* Process p's guard stores the configuration in this step.
SaveStep(p) == procs[p].pc = "save" /\ procs'[p].pc = "clear"

\* The guard of process p has finished.
PastGuard(p) == procs[p].pc \in {"fast", "lookup", "query", "store", "write", "done"}

\* Processes have run, all of them are of the installed build and the guard
\* of each has finished.
GuardsFinished ==
    /\ \E p \in Procs : procs[p].pc # "idle"
    /\ \A p \in Procs : procs[p].pc # "idle" =>
           procs[p].build = installed /\ PastGuard(p)

\* The stored policy is the installed build's.
StoredIsCompiled ==
    /\ config.systemPromptVersion = installed
    /\ config.systemPrompt = installed

\* At most one build newer than the first has been installed, so that no
\* process of a build older than another's can still be upgrading.
FirstNewerBuild == installed <= 2

\* C23 as stated: in any interleaving of the guards of several processes,
\* after all of them have finished the stored policy version and prompt are
\* the compiled ones, the stored version never decreases, and no step other
\* than the guard's saveConfig changes the configuration.
C23_Original ==
    [][ /\ GuardsFinished' => StoredIsCompiled'
        /\ config'.systemPromptVersion >= config.systemPromptVersion
        /\ config' # config => \E p \in Procs : SaveStep(p) ]_vars

\* C23 (amended): with autoUpdateSystemPrompt set and a first newer build
\* installed, so that every guard that upgrades is of the same build: after
\* all guards have finished the stored version and prompt are the build's; a
\* guard's saveConfig stores its own build's version and prompt and nothing
\* else, changes nothing when they are stored already, and does not decrease
\* the stored version unless its build is older than the stored version; and
\* no step other than the guard's saveConfig changes the configuration.
C23_ConcurrentUpgrade ==
    [][ /\ (GuardsFinished' /\ config'.autoUpdateSystemPrompt /\ FirstNewerBuild')
               => StoredIsCompiled'
        /\ \A p \in Procs :
              SaveStep(p) =>
                 /\ config' = UpgradedConfig(config, procs[p].build)
                 /\ config'.systemPromptVersion = procs[p].build
                 /\ config'.systemPrompt = procs[p].build
                 /\ config.systemPromptVersion = procs[p].build
                        /\ config.systemPrompt = procs[p].build => config' = config
                 /\ procs[p].build >= config.systemPromptVersion =>
                        config'.systemPromptVersion >= config.systemPromptVersion
        /\ config' # config => \E p \in Procs : SaveStep(p) ]_vars

\* C23 witness: two processes of the newer build both found the stale
\* configuration, both have stored the upgrade, and the stored policy is the
\* build's.
C23_Witness ==
    /\ installed = 2
    /\ \A p \in Procs : procs[p].pc = "clear" /\ procs[p].build = installed
    /\ StoredIsCompiled

\* ---------------------------------------------------------------------------
\* C24: the resolution state machine terminates
\* ---------------------------------------------------------------------------

\* The states of a process's resolution: Start (the guard), FastChecked,
\* CacheChecked, LLMQueried (the answer is being stored) and Resolved.
ResolutionState(pc) ==
    IF pc \in {"guard", "save", "clear", "fast"} THEN "Start"
    ELSE IF pc = "lookup" THEN "FastChecked"
    ELSE IF pc = "query" THEN "CacheChecked"
    ELSE IF pc \in {"store", "write"} THEN "LLMQueried"
    ELSE IF pc = "done" THEN "Resolved"
    ELSE "Idle"

\* The transitions of the resolution state machine.
ResolutionOrder ==
    { <<"Idle", "Start">>, <<"Start", "Start">>, <<"Start", "FastChecked">>,
      <<"Start", "Resolved">>, <<"FastChecked", "Resolved">>,
      <<"FastChecked", "CacheChecked">>, <<"CacheChecked", "LLMQueried">>,
      <<"LLMQueried", "LLMQueried">>, <<"LLMQueried", "Resolved">>,
      <<"Resolved", "Idle">> }

\* Position of a step within a resolution.
StepRank(pc) ==
    CASE pc = "idle" -> 0 [] pc = "guard" -> 1 [] pc = "save" -> 2
      [] pc = "clear" -> 3 [] pc = "fast" -> 4 [] pc = "lookup" -> 5
      [] pc = "query" -> 6 [] pc = "store" -> 7 [] pc = "write" -> 8
      [] pc = "done" -> 9

\* C24: every resolution that has started reaches Resolved: each step follows
\* Start -> FastChecked -> (Resolved | CacheChecked) -> (Resolved | LLMQueried)
\* -> Resolved and moves strictly forward, so that at most nine steps are
\* taken, and, the arbiter call returning or timing out, a resolution in
\* LLMQueried, like one in any other state, is eventually Resolved.
C24_Terminates ==
    /\ [][ \A p \in Procs :
              procs'[p].pc # procs[p].pc =>
                 /\ <<ResolutionState(procs[p].pc), ResolutionState(procs'[p].pc)>>
                        \in ResolutionOrder
                 /\ \/ StepRank(procs'[p].pc) > StepRank(procs[p].pc)
                    \/ procs[p].pc = "done" /\ procs'[p].pc = "idle" ]_vars
    /\ \A p \in Procs :
          /\ (procs[p].pc \notin {"idle", "done"}) ~> (procs[p].pc = "done")
          /\ (procs[p].pc \in {"store", "write"}) ~> (procs[p].pc = "done")

\* C24 witness: a resolution has been through the arbiter and is Resolved
\* while the other process is still waiting for the arbiter.
C24_Witness ==
    \E p, q \in Procs :
        /\ procs[p].pc = "done" /\ procs[p].source = "llm"
        /\ procs[q].pc = "query"

\* ---------------------------------------------------------------------------
\* C25: when the project root is resolved
\* ---------------------------------------------------------------------------

\* The project root of the observed request.
LastRoot ==
    IF last.raw.cwd # NoCwd THEN resolveProjectRoot(last.raw.cwd) ELSE NoRoot

\* C25 as stated: the project root is resolved only when the fast tier
\* returned unknown; a resolution that ends in the fast tier resolves none.
C25_Original ==
    last.op = "resolveDecision" /\ last.out.rootResolves > 0 =>
        last.out.fast = "unknown"

\* C25 (amended): the project root is resolved once, before the fast tier, in
\* every resolution whose request has a cwd, whatever the fast tier then
\* returns, and never when the request has none; a resolution that ends in
\* the fast tier has resolved it, writes it into its log record and looks
\* nothing up in the cache; and when resolving it throws, the fast tier is
\* not reached.
C25_RootResolvedFirst ==
    last.op = "resolveDecision" =>
        /\ last.resolved =>
              last.out.rootResolves = (IF last.raw.cwd # NoCwd THEN 1 ELSE 0)
        /\ last.out.rootResolves <= 1
        /\ last.raw.cwd = NoCwd => last.out.rootResolves = 0
        /\ last.out.logs # <<>> => last.out.logs[1].projectRoot = LastRoot
        /\ ~last.out.threw /\ last.out.source = "fast" =>
              /\ Len(last.out.logs) = 1
              /\ last.out.lookups = 0
        /\ last.out.threw /\ last.fault = "resolveProjectRoot" =>
              /\ last.out.fast = "none"
              /\ last.out.rootResolves = 0

\* C25 witness: a request with a cwd ended in the fast tier with allow, its
\* project root was resolved and is in the log record.
C25_Witness ==
    /\ last.op = "resolveDecision"
    /\ ~last.out.threw
    /\ last.out.source = "fast"
    /\ last.out.decision = "allow"
    /\ last.out.rootResolves = 1
    /\ last.out.logs[1].projectRoot = "/p2"

\* ---------------------------------------------------------------------------
\* C26: the project root does not change the classification
\* ---------------------------------------------------------------------------

\* The observed call made again from the same documents with the same tool
\* name and tool input, but from working directory d.
AgainFrom(d, reasonGiven) ==
    resolveDecision(last.before, [RequestOf(last.raw) EXCEPT !.cwd = d],
                    EnvAgain(IF last.llm = "none" THEN "allow" ELSE last.llm,
                             reasonGiven))

\* C26: a request with the same tool name and tool input as the observed one
\* but another cwd, and so possibly another project root, gets the same
\* fast-tier classification; when that classification is allow, deny or
\* passthrough it gets the same decision and reason, from the fast tier,
\* without a cache lookup or an arbiter call.
C26_RootIndependent ==
    Returned /\ last.op = "resolveDecision" =>
        \E reasonGiven \in BOOLEAN :
            \A d \in Cwds \ {last.raw.cwd} :
                \A b \in {AgainFrom(d, reasonGiven)} :
                    /\ b.fast = last.out.fast
                    /\ last.out.fast \in {"allow", "deny", "passthrough"} =>
                          /\ ResultOf(b) = ResultOf(last.out)
                          /\ b.source = "fast"
                          /\ b.lookups = 0
                          /\ b.llmCalls = 0

\* C26 witness: a request the fast tier classifies was resolved from one
\* project root while the cache held an entry, and its decision is the fast
\* tier's.
C26_Witness ==
    /\ Returned
    /\ last.op = "resolveDecision"
    /\ last.raw.cwd = "/p2"
    /\ last.out.fast = "passthrough"
    /\ last.out.decision = "passthrough"
    /\ DOMAIN last.before.cache # {}

\* ---------------------------------------------------------------------------
\* C27: a cache document that is absent or does not parse
\* ---------------------------------------------------------------------------

\* C27: when the cache document the tiers find is absent (empty) or does not
\* parse, a resolution of a request the fast tier left unclassified, with the
\* cache enabled and no callee throwing, looks the request up, misses, asks
\* the arbiter once and returns the arbiter's decision and reason from the
\* llm tier; the store then replaces the document with one that holds the
\* new entry alone; the resolution ends in no error.
C27_CorruptCacheIsEmpty ==
    /\ last.op = "resolveDecision"
    /\ last.out.fast = "unknown"
    /\ last.out.guardCache \in {CorruptCache, EmptyCache}
    /\ last.out.config.cacheEnabled
    /\ last.fault = "none"
    => /\ ~last.out.threw
       /\ last.out.lookups = 1
       /\ last.out.hit = NoEntry
       /\ last.out.llmCalls = 1
       /\ last.out.source = "llm"
       /\ last.out.decision = LastLlmResult.decision
       /\ last.out.reason = LastLlmResult.reason
       /\ DOMAIN last.out.cache = {LastKey}
       /\ last.out.cache[LastKey].decision = last.out.decision

\* C27 witness: the arbiter's allow was returned for a request resolved on a
\* cache document that did not parse, and the document now holds that entry.
C27_Witness ==
    /\ last.op = "resolveDecision"
    /\ last.out.guardCache = CorruptCache
    /\ last.before.cache = CorruptCache
    /\ last.out.source = "llm"
    /\ last.out.decision = "allow"
    /\ DOMAIN cache = {LastKey}

\* ---------------------------------------------------------------------------
\* C28: overwrite on the same key
\* ---------------------------------------------------------------------------

\* The observed call resolved through the arbiter a request whose entry had
\* gone stale.
StaleResolvedAgain ==
    /\ Returned
    /\ last.out.source = "llm"
    /\ last.before.config.cacheEnabled
    /\ LastKey \in DOMAIN last.out.guardCache

\* The observed request from working directory d.
LastFrom(d) == [RequestOf(last.raw) EXCEPT !.cwd = d]

\* The observed call made again on the same documents with a fresh entry for
\* the same tool and input planted under the project root of directory d.
AgainBeside(d) ==
    resolveDecision(
        [last.before EXCEPT !.cache = Planted(@, LastFrom(d), last.at,
                                              last.before.config.systemPrompt)],
        RequestOf(last.raw), EnvAgain(last.llm, TRUE))

\* C28: the cache document maps a key to one entry: when a request whose
\* entry has gone stale is resolved again through the arbiter, the document
\* has the same keys as before, the entry at the request's key carries the
\* new decision and reason and the time of this resolution, and every entry
\* at another key is as it was, also one that holds the same tool and input
\* under another project root.
C28_Overwrite ==
    StaleResolvedAgain =>
        /\ \A d \in Cwds :
              KeyOf(LastFrom(d)) # LastKey =>
                 \A b \in {AgainBeside(d)} :
                    /\ DOMAIN b.cache = DOMAIN last.out.cache \cup {KeyOf(LastFrom(d))}
                    /\ b.cache[KeyOf(LastFrom(d))].reason = "planted"
                    /\ b.cache[KeyOf(LastFrom(d))] = b.guardCache[KeyOf(LastFrom(d))]
                    /\ LastKey \in DOMAIN b.cache
                    /\ b.cache[LastKey] = last.out.cache[LastKey]
        /\ ~IsFresh(last.before.config, last.out.guardCache[LastKey], last.at)
        /\ DOMAIN last.out.cache = DOMAIN last.out.guardCache
        /\ LastKey \in DOMAIN last.out.cache
        /\ last.out.cache[LastKey].decision = LastLlmResult.decision
        /\ last.out.cache[LastKey].reason = LastLlmResult.reason
        /\ last.out.cache[LastKey].timestamp = last.at
        /\ last.out.cache[LastKey].timestamp > last.out.guardCache[LastKey].timestamp
        /\ \A k \in DOMAIN last.out.guardCache \ {LastKey} :
               last.out.cache[k] = last.out.guardCache[k]

\* C28 witness: a stale allow was replaced by the arbiter's deny at the same
\* key.
C28_Witness ==
    /\ StaleResolvedAgain
    /\ last.out.guardCache[LastKey].decision = "allow"
    /\ last.out.cache[LastKey].decision = "deny"
    /\ last.out.cache[LastKey].timestamp = last.at
    /\ cache = last.out.cache

\* ---------------------------------------------------------------------------
\* C29: uninstall after install
\* ---------------------------------------------------------------------------

\* A settings file holds a PermissionRequest hook.
HasPermissionRequestHook(file) == \E h \in file.hooks : h[1] = "PermissionRequest"

\* The hooks of a settings file under other events.
OtherHooks(file) == {h \in file.hooks : h[1] # "PermissionRequest"}

\* C29 as stated: for every scope install offers, after install followed by
\* uninstall the settings file install wrote holds no PermissionRequest hook,
\* and its other keys are as they were before install.
C29_Claim ==
    setup.phase = "uninstalled" =>
        /\ ~HasPermissionRequestHook(settings[setup.path])
        /\ OtherHooks(settings[setup.path]) = OtherHooks(setup.before[setup.path])
        /\ settings[setup.path].theme = setup.before[setup.path].theme

\* C29: install wrote the hook to the project's settings file, uninstall has
\* run, and the file still holds the hook.
C29_ProjectHookLeft ==
    /\ setup.phase = "uninstalled"
    /\ setup.scope = "project"
    /\ setup.path = ProjectSettings
    /\ PermissionRequestHook \in settings[ProjectSettings].hooks

\* ---------------------------------------------------------------------------
\* C30: the guard on a policy that is not older
\* ---------------------------------------------------------------------------

\* The observed call made by the pipeline without the guard, from the same
\* documents and in the same environment.
AgainWithoutGuard(reasonGiven) ==
    resolveDecisionWithoutGuard(
        last.before, RequestOf(last.raw),
        [EnvAgain(IF last.llm = "none" THEN "allow" ELSE last.llm, reasonGiven)
            EXCEPT !.fault = last.fault])

\* C30: when the stored policy version is not older than the build's, the
\* guard saves no configuration and clears no cache: the configuration after
\* the call is the one before it, the tiers find the cache document as it
\* was, and, unless the guard's loadConfig threw, the call ends exactly as
\* the pipeline without the guard ends on the same documents: same result,
\* same log records, same cache document, same lookups, arbiter calls and
\* stores.
C30_GuardNoOp ==
    /\ last.op = "resolveDecision"
    /\ last.before.config.systemPromptVersion >= last.installed
    => /\ ~last.out.upgraded
       /\ ~last.out.cleared
       /\ last.out.configSaves = 0
       /\ last.out.config = last.before.config
       /\ last.out.guardCache = last.before.cache
       /\ ~last.before.checked /\ ~GuardThrew =>
             \E reasonGiven \in BOOLEAN :
                 \A b \in {AgainWithoutGuard(reasonGiven)} :
                     [last.out EXCEPT !.checked = b.checked,
                                      !.configLoads = b.configLoads] = b

\* C30 witness: the guard of a fresh process ran on a configuration already
\* upgraded to the newer build, with entries in the cache, and the call was
\* answered from the cache.
C30_Witness ==
    /\ last.op = "resolveDecision"
    /\ ~last.before.checked
    /\ last.installed = 2
    /\ last.before.config.systemPromptVersion = 2
    /\ last.out.configLoads = 1
    /\ last.out.source = "cache"
    /\ last.out.cache = last.before.cache

\* ---------------------------------------------------------------------------
\* C31: the guard's upgrade under failures
\* ---------------------------------------------------------------------------

\* No process is between the guard's saveConfig and its clearCache.
NoGuardUnderWay == \A q \in Procs : procs[q].pc \notin {"save", "clear"}

\* C31 as stated: whatever fails during a guard, no resolution is answered
\* from a cache entry written under an older policy version while the stored
\* version is already the build's and no guard is still on its way to clear
\* the cache.
C31_Claim ==
    \A p \in Procs :
        ServedUnderCurrentPolicy(p) /\ NoGuardUnderWay /\ procs[p].build = installed
            => \A k \in DOMAIN cache : cache[k].policy >= config.systemPromptVersion

\* C31: a guard failed after its saveConfig, the stored version is the
\* build's, the entry written under the older version is still in the cache,
\* and another process has been answered allow from it.
C31_StaleAfterFailure ==
    \E p, q \in Procs :
        /\ procs[q].pc = "done" /\ procs[q].source = "error"
        /\ procs[q].build = installed
        /\ config.systemPromptVersion = installed
        /\ ServedUnderCurrentPolicy(p)
        /\ procs[p].decision = "allow"
        /\ procs[p].hit.policy < procs[p].stored
        /\ KeyOf(procs[p].req) \in DOMAIN cache
        /\ cache[KeyOf(procs[p].req)] = procs[p].hit
        /\ NoGuardUnderWay

\* ---------------------------------------------------------------------------
\* C32: the audit record and the result
\* ---------------------------------------------------------------------------

\* C32 as stated: every resolution that returns wrote exactly one audit
\* record, and the record's decision and reason are the decision and the
\* reason returned to the caller, in every tier and for a fast-tier result
\* with an empty reason too.
C32_Claim ==
    Returned =>
        /\ Len(last.out.logs) = 1
        /\ last.out.logs[1].decision = last.out.decision
        /\ last.out.logs[1].reason = last.out.reason

\* C32: a resolution returned with one audit record whose decision is the
\* returned one and whose reason is not: a fast deny without a reason is
\* logged as "Fast deny" and returned as "Blocked by security pattern", and a
\* cache hit is logged with the prefix "Cached: " the returned reason lacks.
C32_ReasonsDiffer ==
    /\ Returned
    /\ Len(last.out.logs) = 1
    /\ last.out.logs[1].decision = last.out.decision
    /\ \/ /\ last.out.source = "fast"
          /\ last.out.decision = "deny"
          /\ last.out.logs[1].reason = "Fast deny"
          /\ last.out.reason = "Blocked by security pattern"
       \/ /\ last.out.source = "cache"
          /\ last.out.logs[1].reason = "Cached: " \o last.out.reason

\* ---------------------------------------------------------------------------
\* C33: the two handlers share one decision core
\* ---------------------------------------------------------------------------

\* The observed PreToolUse payload as a PermissionRequest hook would carry it:
\* same tool_name, tool_input, cwd and session_id.
AsPermissionRequest == [last.raw EXCEPT !.hook_event_name = "PermissionRequest"]

BothAccept ==
    /\ last.op = "handlePreToolUse"
    /\ ~PreToolUseNameAbsent(last.raw.tool_name)
    /\ PermissionRequestInputSchema(AsPermissionRequest)

\* handlePermissionRequest on the observed request, from the same documents
\* and module state and in the same environment.
AgainAsPermissionRequest(reasonGiven) ==
    handlePermissionRequest(
        last.before, AsPermissionRequest,
        [EnvAgain(IF last.llm = "none" THEN "allow" ELSE last.llm, reasonGiven)
            EXCEPT !.fault = last.fault])

\* allow, deny, or null for no output
OutcomeOfPermissionRequest(response) == response.behavior

OutcomeOfPreToolUse(response) ==
    IF response = NullResponse THEN "null" ELSE response.permissionDecision

\* C33: for every request both handlers accept, handlePreToolUse and
\* handlePermissionRequest, run from the same configuration, cache and module
\* state under the same arbiter behaviour, report the same outcome (allow,
\* deny, or nothing for passthrough), the same reason with a deny, and end
\* with the same resolution: same cache and configuration documents, same log
\* records, same lookups, arbiter calls and stores, and the same throw.
C33_SharedCore ==
    BothAccept =>
        \E reasonGiven \in BOOLEAN :
            \A h \in {AgainAsPermissionRequest(reasonGiven)} :
                /\ h.out = last.out
                /\ OutcomeOfPermissionRequest(h.response)
                       = OutcomeOfPreToolUse(last.response)
                /\ h.response.behavior = "deny" =>
                       h.response.message = last.response.permissionDecisionReason

\* C33 witness: a request both handlers accept went through handlePreToolUse
\* to the arbiter, which denied it: one log record was written and the output
\* is a deny carrying the arbiter's reason.
C33_Witness ==
    /\ BothAccept
    /\ last.out.source = "llm"
    /\ last.out.llmCalls = 1
    /\ Len(last.out.logs) = 1
    /\ last.response # NullResponse
    /\ last.response.permissionDecision = "deny"
    /\ last.response.permissionDecisionReason = last.out.reason
    /\ last.out.reason # ""

\* ---------------------------------------------------------------------------
\* C34: handlePreToolUse on malformed input
\* ---------------------------------------------------------------------------

\* The observed PreToolUse payload has no tool_name or an empty one, or a
\* tool_input that is not an object.
PreToolUseIsMalformed ==
    /\ last.op = "handlePreToolUse"
    /\ \/ PreToolUseNameAbsent(last.raw.tool_name)
       \/ last.raw.tool_input \in {NotAnObject, AbsentInput}

\* C34 as stated: for a payload whose tool_name is missing or empty or whose
\* tool_input is not an object, handlePreToolUse returns a deny output, never
\* allow and never nothing, and for a missing tool_name it does so without
\* running the guard, the fast tier, the cache or the arbiter.
C34_Claim ==
    PreToolUseIsMalformed =>
        /\ ~last.out.threw => OutcomeOfPreToolUse(last.response) = "deny"
        /\ PreToolUseNameAbsent(last.raw.tool_name) =>
               /\ ~last.resolved
               /\ last.out = NotResolved(last.before)

\* C34: a PreToolUse payload whose tool_input is not an object went into the
\* resolver as it was and came back allowed.
C34_NonObjectAllowed ==
    /\ last.op = "handlePreToolUse"
    /\ last.raw.tool_input = NotAnObject
    /\ last.resolved
    /\ ~last.out.threw
    /\ last.response # NullResponse
    /\ last.response.permissionDecision = "allow"

====
